---------------------------- MODULE Spec2Model ----------------------------
(***************************************************************************)
(* A model of rpathlib: the RPath address model (rpathlib/__init__.py) and *)
(* the concurrency bridge (rpathlib/utils.py).                             *)
(*                                                                         *)
(* Strings are sequences of one-character strings, so that the address     *)
(* regular expression and pathlib.PurePosixPath are computed, not assumed. *)
(*                                                                         *)
(* The module holds several specifications over one set of variables; each *)
(* specification drives one group of variables and leaves the others at    *)
(* their idle values:                                                      *)
(*   SpecPath      RPath construction, join, parent                        *)
(*   SpecTransfer  copyfile / rename                                       *)
(*   SpecMount     mount / a_mount: mount, drain barrier, unmount          *)
(*   SpecBridge    ensure_event_loop_thread, with_awith, arun_until_done   *)
(*   SpecAwith     awith_with and with_thread                              *)
(*   SpecSession   awith_rclone / with_rclone over awith_tasks             *)
(*   SpecClient    RPath.client called from several threads                *)
(*   SpecParse     RPath(s) and str(...), parse and render                 *)
(*   SpecOps       the file operations against a file tree                 *)
(*   SpecOpen      open: mount of the parent, handle, close, unmount       *)
(*   SpecAcquire   both bridges with fair scheduling: entry and handoff    *)
(***************************************************************************)
EXTENDS Integers, Sequences, FiniteSets, TLC

VARIABLES
  client,      \* RPath.client   : "None" or "set"
  a_client,    \* RPath.a_client : "None" or "set"
  p,           \* an RPath value, the receiver of the path operations
  parg,        \* the argument of the last copyfile / rename
  pcall,       \* the control-plane call the last copyfile / rename issued
  perr,        \* the error the last path operation raised
  mform,       \* "mount" (blocking) or "a_mount" (suspension-point form)
  mpc,         \* the position of the mount scope ("uncalled": open not yet called)
  mexc,        \* the exception the mount scope is carrying out
  mstats,      \* the most recent vfs/stats response
  mpolls,      \* the number of vfs/stats calls issued
  mlog,        \* the control-plane calls of the mount scope, in order
  running,     \* the caller is inside a running event loop (loop 0)
  prog,        \* what the caller runs: "ensure" or "with_awith"
  stk,         \* the ensure_event_loop_thread scopes entered and not yet left
  cpc,         \* the position of the caller
  csig,        \* how the block the caller is leaving ended
  raised,      \* the error the body of the with block raised ("normal": none)
  result,      \* what the outermost scope handed to its caller
  loops,       \* the event loops created, each with its dedicated thread
  entered,     \* the number of ensure_event_loop_thread scopes entered
  svc,         \* the task arun_until_done(awith, ready, done)
  ready,       \* the Event ready of with_awith
  wdone,       \* the Event done of with_awith: "clear", "requested", "set"
  wexc,        \* how the body of with_awith ended
  nAexit,      \* the number of times the resource's __aexit__ started
  apc,         \* the position of the coroutine inside async with awith_with(...)
  aexc,        \* how the async scope of awith_with is being left
  wpc,         \* the position of the worker thread running with_thread
  wret,        \* ret of with_thread: what withfn().__enter__ returned
  tstate,      \* the asyncio task wrapping the worker thread
  rq,          \* the Queue ready of awith_with
  adone,       \* the Event done of awith_with
  actx,        \* the value the body of awith_with received
  nExit,       \* the number of times the blocking resource's __exit__ started
  acquired,    \* the blocking resource's __enter__ returned
  cancels,     \* the number of cancellations delivered to the async scope
  sform,       \* how the session is entered: "with_rclone" or "awith_rclone"
  spc,         \* the position of the session scope (awith_rclone / awith_tasks)
  bexc,        \* how the body of the session ended
  sexc,        \* how the session scope (awith_tasks) is being left
  ti,          \* the index of awith_tasks' loop over its tasks
  tsk,         \* the state of each supervised task
  creq,        \* the tasks on which cancel() has been called
  tpc,         \* the position of each thread calling RPath.client
  rpc,         \* the state of each thread's control-plane call
  ncalls,      \* the number of calls each thread has issued
  isrc,        \* the string handed to RPath(...)
  ipc,         \* how far the string has been parsed and rendered
  ierr,        \* the error RPath(...) raised ("none": it returned)
  ival,        \* RPath(isrc)
  istr,        \* str(ival)
  ival2,       \* RPath(istr)
  istr2,       \* str(ival2)
  odir,        \* the directory d the file operations work under
  tree,        \* the control plane's file tree: the entry of each name in d
  opre,        \* the file tree before the last operation
  oop,         \* the last operation: its name, form, receiver and arguments
  olog,        \* the control-plane calls the last operation issued, in order
  oresp,       \* the responses to those calls, in order
  ores,        \* what the last operation returned or raised
  ofaith,      \* every response of the last operation came from the file tree
  fself,       \* the path open is called on
  fmnt,        \* the path whose mount scope open entered
  fh,          \* the native file handle: "none", "open" or "closed"
  fopened,     \* the name opened inside the mounted directory
  fexc,        \* how the body of the open scope ended
  mtmp,        \* tmpdir, the temporary directory of the mount scope
  mmnt,        \* mountPoint of the mount/mount call
  munm,        \* mountPoint of the mount/unmount call
  mentered     \* mount/mount returned and the scope yielded

sessionVars == <<client, a_client>>
pathVars == <<p, parg, pcall, perr>>
mountVars == <<mform, mpc, mexc, mstats, mpolls, mlog>>
bridgeVars == <<running, prog, stk, cpc, csig, raised, result, loops, entered,
                svc, ready, wdone, wexc, nAexit>>
awithVars == <<apc, aexc, wpc, wret, tstate, rq, adone, actx, nExit, acquired,
               cancels>>
scopeVars == <<sform, spc, bexc, sexc, ti, tsk, creq>>
callVars == <<tpc, rpc, ncalls>>
parseVars == <<isrc, ipc, ierr, ival, istr, ival2, istr2>>
opVars == <<odir, tree, opre, oop, olog, oresp, ores, ofaith>>
openVars == <<fself, fmnt, fh, fopened, fexc>>
pointVars == <<mtmp, mmnt, munm, mentered>>
vars == <<sessionVars, pathVars, mountVars, bridgeVars, awithVars, scopeVars,
          callVars, parseVars, opVars, openVars, pointVars>>

\* what the actions of one group leave alone
exceptPath == <<sessionVars, mountVars, bridgeVars, awithVars, scopeVars,
                callVars, parseVars, opVars, openVars, pointVars>>
exceptMount == <<sessionVars, pathVars, bridgeVars, awithVars, scopeVars,
                 callVars, parseVars, opVars, openVars, pointVars>>
exceptBridge == <<sessionVars, pathVars, mountVars, awithVars, scopeVars,
                  callVars, parseVars, opVars, openVars, pointVars>>
exceptAwith == <<sessionVars, pathVars, mountVars, bridgeVars, scopeVars,
                 callVars, parseVars, opVars, openVars, pointVars>>
exceptScope == <<pathVars, mountVars, bridgeVars, awithVars, callVars,
                 parseVars, opVars, openVars, pointVars>>
exceptParse == <<sessionVars, pathVars, mountVars, bridgeVars, awithVars,
                 scopeVars, callVars, opVars, openVars, pointVars>>
exceptOp == <<sessionVars, pathVars, mountVars, bridgeVars, awithVars,
              scopeVars, callVars, parseVars, openVars, pointVars>>
exceptOpen == <<sessionVars, pathVars, bridgeVars, awithVars, scopeVars,
                callVars, parseVars, opVars, pointVars>>
exceptPoint == <<sessionVars, pathVars, bridgeVars, awithVars, scopeVars,
                 callVars, parseVars, opVars, openVars>>
exceptCall == <<sessionVars, pathVars, mountVars, bridgeVars, awithVars,
                scopeVars, parseVars, opVars, openVars, pointVars>>

(***************************************************************************)
(* Bounds                                                                  *)
(***************************************************************************)
MaxLen == 3      \* longest address string parsed
MaxName == 1     \* longest name joined onto a path
MaxParts == 2    \* deepest path built by joining
MaxArgLen == 2   \* longest address string behind an RPath argument
MaxUploads == 1  \* largest upload count a vfs/stats response reports
MaxPolls == 3    \* most vfs/stats calls of one mount scope
MaxEnter == 2    \* most ensure_event_loop_thread scopes one caller enters

(***************************************************************************)
(* Characters and strings                                                  *)
(***************************************************************************)
Chars == {"a", "b", ":", "/", "\""}

StringsUpTo(n) == UNION {[1..k -> Chars] : k \in 0..n}

Strings == StringsUpTo(MaxLen)

Names == StringsUpTo(MaxName) \ {<<>>}

LocalSentinel == <<":", "l", "o", "c", "a", "l", ":">>

EmptyStr == <<>>

StartsWith(s, c) == Len(s) >= 1 /\ s[1] = c

\* a most recent (largest) element of a non-empty set of integers
MaxOf(S) == CHOOSE x \in S : \A y \in S : y <= x

(***************************************************************************)
(* The address regular expression of RPath.__init__: an optional remote    *)
(* prefix, one or more groups followed by a colon, and then the rest.  A   *)
(* group is an optional colon and one or more plain characters (neither a  *)
(* colon nor a double quote), or a double-quoted, possibly empty, string.  *)
(* The repeated group is recognised by a five-state automaton:             *)
(*   start   nothing consumed yet                                          *)
(*   colon   a colon that opens a group, a plain character must follow     *)
(*   run     inside the plain characters                                   *)
(*   quote   inside a quoted string (any character, a colon included)      *)
(*   closed  after the closing quote                                       *)
(* The group matched at least once exactly in states run and closed.       *)
(* The greedy match takes the last colon before which the group matched.   *)
(***************************************************************************)
GroupStep(st, c) ==
  CASE st = "fail" -> "fail"
    [] st = "quote" -> IF c = "\"" THEN "closed" ELSE "quote"
    [] st = "colon" -> IF c \in {":", "\""} THEN "fail" ELSE "run"
    [] OTHER -> IF c = ":" THEN "colon"
                ELSE IF c = "\"" THEN "quote"
                ELSE "run"

RECURSIVE GroupState(_, _)
\* the automaton's state after the first n characters of s
GroupState(s, n) ==
  IF n = 0 THEN "start" ELSE GroupStep(GroupState(s, n - 1), s[n])

\* the positions of a ':' that can end the optional remote prefix
SplitPoints(s) ==
  {i \in 1..Len(s) : s[i] = ":" /\ GroupState(s, i - 1) \in {"run", "closed"}}

\* re.match(...).groups(): group 1 (None when the prefix did not match), group 3
ReMatch(s) ==
  IF SplitPoints(s) = {}
  THEN [matched |-> FALSE, remote |-> EmptyStr, rest |-> s]
  ELSE LET i == MaxOf(SplitPoints(s))
       IN [matched |-> TRUE, remote |-> SubSeq(s, 1, i),
           rest |-> SubSeq(s, i + 1, Len(s))]

(***************************************************************************)
(* pathlib.PurePosixPath: a root ("", "/" or "//") and the parts           *)
(***************************************************************************)
RECURSIVE SplitSlash(_)
\* s.split('/')
SplitSlash(s) ==
  IF \A i \in 1..Len(s) : s[i] # "/"
  THEN <<s>>
  ELSE LET i == CHOOSE k \in 1..Len(s) :
                  s[k] = "/" /\ \A j \in 1..(k - 1) : s[j] # "/"
       IN <<SubSeq(s, 1, i - 1)>> \o SplitSlash(SubSeq(s, i + 1, Len(s)))

\* the components kept: neither empty nor '.'
KeptParts(comps) == SelectSeq(comps, LAMBDA x : x # EmptyStr /\ x # <<".">>)

\* exactly two leading slashes are kept, any other number is one
PosixRoot(s) ==
  IF ~StartsWith(s, "/") THEN EmptyStr
  ELSE IF Len(s) >= 2 /\ s[2] = "/" /\ ~(Len(s) >= 3 /\ s[3] = "/")
       THEN <<"/", "/">>
       ELSE <<"/">>

PurePosixPath(s) == [root |-> PosixRoot(s), parts |-> KeptParts(SplitSlash(s))]

EmptyPath == [root |-> EmptyStr, parts |-> <<>>]

RECURSIVE JoinSlash(_)
\* '/'.join(parts)
JoinSlash(parts) ==
  IF parts = <<>> THEN EmptyStr
  ELSE IF Len(parts) = 1 THEN parts[1]
  ELSE parts[1] \o <<"/">> \o JoinSlash(Tail(parts))

\* str(path)
PathStr(path) ==
  IF path = EmptyPath THEN <<".">> ELSE path.root \o JoinSlash(path.parts)

IsAbsolute(path) == path.root # EmptyStr

\* path / other
PathJoin(path, other) ==
  IF IsAbsolute(other) THEN other
  ELSE [root |-> path.root, parts |-> path.parts \o other.parts]

PathParent(path) ==
  IF path.parts = <<>> THEN path
  ELSE [root |-> path.root, parts |-> SubSeq(path.parts, 1, Len(path.parts) - 1)]

PathName(path) ==
  IF path.parts = <<>> THEN EmptyStr ELSE path.parts[Len(path.parts)]

(***************************************************************************)
(* RPath                                                                   *)
(***************************************************************************)
\* RPath(path, remote=remote): the branch of __init__ taken with a remote
RPathOf(path, remote) == [remote |-> remote, path |-> path]

\* RPath(s) for a string s
RPathStr(s) ==
  LET m == ReMatch(s)
  IN [remote |-> IF m.matched THEN m.remote ELSE LocalSentinel,
      path |-> PurePosixPath(m.rest)]

Fs(r) ==
  IF r.remote = LocalSentinel
  THEN IF IsAbsolute(r.path) THEN <<"/">> ELSE LocalSentinel
  ELSE r.remote

Remote(r) == IF r.path = EmptyPath THEN EmptyStr ELSE PathStr(r.path)

Str(r) == Fs(r) \o Remote(r)

Repr(r) == <<"R", "P", "a", "t", "h", "(">> \o Str(r) \o <<")">>

\* hash((self.remote, self.path)): the hash of a tuple is modelled by the tuple,
\* so two hashes are equal exactly when the hashed tuples are
Hash(r) == <<r.remote, r.path>>

Eq(r, value) == Repr(r) = Repr(value)

Truediv(r, value) == RPathOf(PathJoin(r.path, PurePosixPath(value)), r.remote)

Parent(r) == RPathOf(PathParent(r.path), r.remote)

\* every RPath a string of the bounded alphabet parses to
ParsedValues == {RPathStr(s) : s \in Strings}

\* the RPath values passed as arguments
ArgValues == {RPathStr(s) : s \in StringsUpTo(MaxArgLen)}

(***************************************************************************)
(* copyfile / rename: the resolution of `other` and the call issued        *)
(***************************************************************************)
NoCall == [op |-> "none", srcFs |-> EmptyStr, srcRemote |-> EmptyStr,
           dstFs |-> EmptyStr, dstRemote |-> EmptyStr]

NoArg == [kind |-> "none", str |-> EmptyStr, rp |-> RPathOf(EmptyPath, LocalSentinel)]

StrArg(s) == [kind |-> "str", str |-> s, rp |-> RPathOf(EmptyPath, LocalSentinel)]

RPathArg(r) == [kind |-> "rpath", str |-> EmptyStr, rp |-> r]

OtherArg == [kind |-> "other", str |-> EmptyStr, rp |-> RPathOf(EmptyPath, LocalSentinel)]

\* which of the two branches a string argument takes: RPath(other_path, other_remote)
UsesOtherRemote(rest) == StartsWith(rest, "/")

\* the RPath a string argument resolves to
ResolveStr(self, s) ==
  LET m == ReMatch(s)
      other_remote == IF m.matched THEN m.remote ELSE self.remote
  IN IF UsesOtherRemote(m.rest)
     THEN RPathOf(PurePosixPath(m.rest), other_remote)
     ELSE Truediv(Parent(self), m.rest)

TransferCall(op, self, other) ==
  [op |-> op, srcFs |-> Fs(self), srcRemote |-> Remote(self),
   dstFs |-> Fs(other), dstRemote |-> Remote(other)]

(***************************************************************************)
(* Control-plane calls, responses, and the results of the file operations. *)
(* A text (a file's content, a message) is a sequence of words, so that    *)
(* `x in text` is computed and len(text) is its length.                    *)
(***************************************************************************)
NoText == <<>>

\* x in text
Contains(text, x) == \E i \in DOMAIN text : text[i] = x

\* a call RPath.client(op, ...) or RPath.a_client(op, ...) with its parameters
BaseCall(via, op) ==
  [via |-> via, op |-> op, fs |-> EmptyStr, remote |-> EmptyStr,
   srcFs |-> EmptyStr, srcRemote |-> EmptyStr, dstFs |-> EmptyStr,
   dstRemote |-> EmptyStr, filename |-> EmptyStr, text |-> NoText,
   arg |-> EmptyStr]

\* a call with the parameters fs and remote
FsCall(via, op, fs, remote) ==
  [BaseCall(via, op) EXCEPT !.fs = fs, !.remote = remote]

\* the response of a call, as the operations read it:
\*   raised   what the call raised instead of returning ("none": it returned)
\*   item     ret.get('item'): "absent" (no such key), "null", "dir", "file"
\*   errkey   ret['error']: "absent" (no such key), "false", "true", "message"
\*   errmsg   the message when errkey is "message"
\*   result   ret['result']
\*   haslist  'list' in ret, and list the names in ret['list']
OkResp ==
  [raised |-> "none", item |-> "absent", errkey |-> "absent",
   errmsg |-> NoText, result |-> NoText, haslist |-> FALSE, list |-> {}]

RaisedResp(e) == [OkResp EXCEPT !.raised = e]

ItemResp(kind) == [OkResp EXCEPT !.item = kind]

\* the error object of the control plane
ErrorResp(msg) == [OkResp EXCEPT !.errkey = "message", !.errmsg = msg]

\* the response of core/command
CommandResp(failed, text) ==
  [OkResp EXCEPT !.errkey = IF failed THEN "true" ELSE "false",
                 !.result = text]

ListResp(names) == [OkResp EXCEPT !.haslist = TRUE, !.list = names]

\* what an operation returned (status "ok") or raised (status: the error)
Returned(kind) ==
  [status |-> "ok", kind |-> kind, flag |-> FALSE, item |-> "none",
   text |-> NoText, size |-> 0, paths |-> {}]

ReturnedNone == Returned("None")

ReturnedBool(b) == [Returned("bool") EXCEPT !.flag = b]

ReturnedItem(kind) == [Returned("item") EXCEPT !.item = kind]

ReturnedText(t) == [Returned("str") EXCEPT !.text = t]

ReturnedInt(n) == [Returned("int") EXCEPT !.size = n]

ReturnedPaths(ps) == [Returned("paths") EXCEPT !.paths = ps]

\* raise e(msg)
Raised(e, msg) == [Returned("raise") EXCEPT !.status = e, !.text = msg]

\* an entry of the file tree
AbsentEntry == [kind |-> "absent", text |-> NoText]

DirEntry == [kind |-> "dir", text |-> NoText]

FileEntry(t) == [kind |-> "file", text |-> t]

\* the description of an operation: name, form, receiver, arguments
OpDesc(name, form, self) ==
  [name |-> name, form |-> form, self |-> self, other |-> EmptyStr,
   text |-> NoText, exist_ok |-> FALSE]

NoOp == OpDesc("none", "blocking", RPathOf(EmptyPath, LocalSentinel))

(***************************************************************************)
(* The idle values of each group of variables                              *)
(***************************************************************************)
NoStats == [seen |-> FALSE, inProgress |-> 0, queued |-> 0]

InitPathIdle ==
  /\ p = RPathOf(EmptyPath, LocalSentinel)
  /\ parg = NoArg
  /\ pcall = NoCall
  /\ perr = "none"

InitMountIdle ==
  /\ mform = "mount"
  /\ mpc = "idle"
  /\ mexc = "none"
  /\ mstats = NoStats
  /\ mpolls = 0
  /\ mlog = <<>>

InitBridgeIdle ==
  /\ running = FALSE
  /\ prog = "ensure"
  /\ stk = <<>>
  /\ cpc = "idle"
  /\ csig = "normal"
  /\ raised = "normal"
  /\ result = "pending"
  /\ loops = <<>>
  /\ entered = 0
  /\ svc = "none"
  /\ ready = FALSE
  /\ wdone = "clear"
  /\ wexc = "normal"
  /\ nAexit = 0

\* the tasks awith_rclone hands to awith_tasks, in the order of its arguments
TaskNames == <<"rclone_rcd", "rclone_rc_bridge">>

Tasks == DOMAIN TaskNames

\* the threads that call RPath.client during a session
Threads == {"starter", "other", "sched"}

InitAwithIdle ==
  /\ apc = "idle"
  /\ aexc = "normal"
  /\ wpc = "none"
  /\ wret = "none"
  /\ tstate = "none"
  /\ rq = <<>>
  /\ adone = FALSE
  /\ actx = "none"
  /\ nExit = 0
  /\ acquired = FALSE
  /\ cancels = 0

InitScopeIdle ==
  /\ sform = "with_rclone"
  /\ spc = "idle"
  /\ bexc = "normal"
  /\ sexc = "normal"
  /\ ti = 1
  /\ tsk = [i \in Tasks |-> "none"]
  /\ creq = {}

InitCallIdle ==
  /\ tpc = [t \in Threads |-> "idle"]
  /\ rpc = [t \in Threads |-> "none"]
  /\ ncalls = [t \in Threads |-> 0]

InitParseIdle ==
  /\ isrc = EmptyStr
  /\ ipc = "idle"
  /\ ierr = "none"
  /\ ival = RPathOf(EmptyPath, LocalSentinel)
  /\ istr = EmptyStr
  /\ ival2 = RPathOf(EmptyPath, LocalSentinel)
  /\ istr2 = EmptyStr

InitOpIdle ==
  /\ odir = RPathOf(EmptyPath, LocalSentinel)
  /\ tree = <<>>
  /\ opre = <<>>
  /\ oop = NoOp
  /\ olog = <<>>
  /\ oresp = <<>>
  /\ ores = ReturnedNone
  /\ ofaith = TRUE

InitOpenIdle ==
  /\ fself = RPathOf(EmptyPath, LocalSentinel)
  /\ fmnt = RPathOf(EmptyPath, LocalSentinel)
  /\ fh = "none"
  /\ fopened = EmptyStr
  /\ fexc = "none"

InitPointIdle ==
  /\ mtmp = "none"
  /\ mmnt = "none"
  /\ munm = "none"
  /\ mentered = FALSE

InitOthersIdle ==
  /\ InitAwithIdle
  /\ InitScopeIdle
  /\ InitCallIdle
  /\ InitParseIdle
  /\ InitOpIdle
  /\ InitOpenIdle
  /\ InitPointIdle

(***************************************************************************)
(* SpecMount: RPath.mount / RPath.a_mount, the scope that mounts, yields,  *)
(* polls vfs/stats until the uploads have drained, and unmounts.           *)
(***************************************************************************)
StatsOf(ip, q) == [seen |-> TRUE, inProgress |-> ip, queued |-> q]

CallEvent(op) == [ev |-> op, inProgress |-> 0, queued |-> 0]

StatsEvent(ip, q) == [ev |-> "vfs/stats", inProgress |-> ip, queued |-> q]

\* ret['diskCache']['uploadsInProgress'] or ret['diskCache']['uploadsQueued']
DrainPendingBug(ret) == ret.inProgress # 0

DrainPending(ret) == ret.inProgress # 0 \/ ret.queued # 0

\* the directories tempfile.TemporaryDirectory can create
TmpDirs == {"tmp1", "tmp2"}

\* mountPoint=tmpdir of the mount/unmount call
UnmountPointBug(tmpdir) == "none"

UnmountPoint(tmpdir) == tmpdir

InitMount ==
  /\ client = "set"
  /\ a_client = "set"
  /\ InitPathIdle
  /\ InitBridgeIdle
  /\ InitOthersIdle
  /\ mform \in {"mount", "a_mount"}
  /\ mpc = "idle"
  /\ mexc = "none"
  /\ mstats = NoStats
  /\ mpolls = 0
  /\ mlog = <<>>

\* the awaits of a_mount are where a cancellation can be delivered
Cancellable == mform = "a_mount"

\* with tempfile.TemporaryDirectory() as tmpdir, then the mount/mount call is issued
MountEnter ==
  /\ mpc = "idle"
  /\ mpc' = "mounting"
  /\ \E tmpdir \in TmpDirs :
       /\ mtmp' = tmpdir
       /\ mmnt' = tmpdir
  /\ mlog' = Append(mlog, CallEvent("mount/mount"))
  /\ UNCHANGED <<mform, mexc, mstats, mpolls, munm, mentered, exceptPoint>>

\* mount/mount returned: the scope yields the directory
MountReturned ==
  /\ mpc = "mounting"
  /\ mpc' = "body"
  /\ mentered' = TRUE
  /\ UNCHANGED <<mform, mexc, mstats, mpolls, mlog, mtmp, mmnt, munm,
                 exceptPoint>>

\* mount/mount raised, or the await was cancelled: the try block is not entered
MountFailed ==
  /\ mpc = "mounting"
  /\ \E e \in {"error"} \cup (IF Cancellable THEN {"cancelled"} ELSE {}) :
       mexc' = e
  /\ mpc' = "rmtmp"
  /\ UNCHANGED <<mform, mstats, mpolls, mlog, exceptMount>>

\* the body of the with block ends: normally, by raising, or (a_mount) cancelled
MountBodyExit ==
  /\ mpc = "body"
  /\ \E e \in {"none", "error"} \cup (IF Cancellable THEN {"cancelled"} ELSE {}) :
       mexc' = e
  /\ mpc' = "poll"
  /\ UNCHANGED <<mform, mstats, mpolls, mlog, exceptMount>>

\* finally: one pass of the while loop, a vfs/stats call and its response
MountPoll ==
  /\ mpc = "poll"
  /\ mpolls < MaxPolls
  /\ \E ip \in 0..MaxUploads, q \in 0..MaxUploads :
       /\ mstats' = StatsOf(ip, q)
       /\ mlog' = Append(mlog, StatsEvent(ip, q))
       /\ mpc' = IF DrainPending(StatsOf(ip, q)) THEN "sleep" ELSE "settle"
  /\ mpolls' = mpolls + 1
  /\ UNCHANGED <<mform, mexc, exceptMount>>

\* the vfs/stats call raised, or its await was cancelled: the finally block is left
MountPollFailed ==
  /\ mpc = "poll"
  /\ mpolls < MaxPolls
  /\ \E e \in {"error"} \cup (IF Cancellable THEN {"cancelled"} ELSE {}) :
       mexc' = e
  /\ mlog' = Append(mlog, CallEvent("vfs/stats failed"))
  /\ mpolls' = mpolls + 1
  /\ mpc' = "rmtmp"
  /\ UNCHANGED <<mform, mstats, exceptMount>>

\* time.sleep(0.1) inside the loop, then the next pass
MountSleep ==
  /\ mpc = "sleep"
  /\ mpc' = "poll"
  /\ UNCHANGED <<mform, mexc, mstats, mpolls, mlog, exceptMount>>

\* break, time.sleep(0.1), then the mount/unmount call is issued
MountUnmount ==
  /\ mpc = "settle"
  /\ munm' = UnmountPoint(mtmp)
  /\ mlog' = Append(mlog, CallEvent("mount/unmount"))
  /\ mpc' = "unmounting"
  /\ UNCHANGED <<mform, mexc, mstats, mpolls, mtmp, mmnt, mentered, exceptPoint>>

\* mount/unmount returned, raised, or (a_mount) its await was cancelled
MountUnmountReturned ==
  /\ mpc = "unmounting"
  /\ \E e \in {mexc, "error"} \cup (IF Cancellable THEN {"cancelled"} ELSE {}) :
       mexc' = e
  /\ mpc' = "rmtmp"
  /\ UNCHANGED <<mform, mstats, mpolls, mlog, exceptMount>>

\* the temporary directory is removed and the scope is left
MountExit ==
  /\ mpc = "rmtmp"
  /\ mpc' = "done"
  /\ UNCHANGED <<mform, mexc, mstats, mpolls, mlog, exceptMount>>

NextMount ==
  \/ MountEnter
  \/ MountReturned
  \/ MountFailed
  \/ MountBodyExit
  \/ MountPoll
  \/ MountPollFailed
  \/ MountSleep
  \/ MountUnmount
  \/ MountUnmountReturned
  \/ MountExit

SpecMount == InitMount /\ [][NextMount]_vars

\* the positions of the calls of one kind in the log
CallsOf(op) == {i \in DOMAIN mlog : mlog[i].ev = op}

\* C5: mount/unmount is issued only after a vfs/stats response in which both
\* uploadsInProgress and uploadsQueued are zero, with no other stats response
\* between the two: the call logged just before every mount/unmount is a
\* vfs/stats response with both counts zero, and the most recent response
\* reports nothing in progress and nothing queued.
C5_UnmountOnlyAfterDrained ==
  \A i \in CallsOf("mount/unmount") :
    /\ i > 1
    /\ mlog[i - 1].ev = "vfs/stats"
    /\ mlog[i - 1].inProgress = 0 /\ mlog[i - 1].queued = 0
    /\ mstats.seen /\ mstats.inProgress = 0 /\ mstats.queued = 0

\* an unmount issued after a response that reported queued uploads and no
\* upload in progress, and a later one that reported neither
C5_Witness ==
  /\ CallsOf("mount/unmount") # {}
  /\ \E i \in CallsOf("vfs/stats") : mlog[i].inProgress = 0 /\ mlog[i].queued # 0
  /\ mpc = "done"

(***************************************************************************)
(* SpecPath: RPath values built during an active session by parsing a      *)
(* string, joining a name and taking the parent.                           *)
(* SpecTransfer: copyfile / rename of a parsed RPath.                      *)
(***************************************************************************)
SessionActive == client = "set" /\ a_client = "set"

\* p = RPath(s), which raises unless RPath.client is set
InitPath ==
  /\ client = "set"
  /\ a_client = "set"
  /\ \E s \in Strings : p = RPathStr(s)
  /\ parg = NoArg
  /\ pcall = NoCall
  /\ perr = "none"
  /\ InitMountIdle
  /\ InitBridgeIdle
  /\ InitOthersIdle

\* no copyfile / rename is in progress
PathIdle == parg = NoArg

\* p = p / name
Join ==
  /\ client # "None"
  /\ PathIdle
  /\ \E n \in Names :
       /\ Len(Truediv(p, n).path.parts) <= MaxParts
       /\ p' = Truediv(p, n)
  /\ UNCHANGED <<parg, pcall, perr, exceptPath>>

\* p = p.parent
TakeParent ==
  /\ client # "None"
  /\ PathIdle
  /\ p' = Parent(p)
  /\ UNCHANGED <<parg, pcall, perr, exceptPath>>

NextPath == Join \/ TakeParent

SpecPath == InitPath /\ [][NextPath]_vars

\* C9: for RPath values p and q obtained by parsing an address string, by
\* joining a name and by taking the parent, p == q holds iff their rendered
\* strings are equal, and p == q implies hash(p) == hash(q).
C9_EqIffSameStringAndHashConsistent ==
  \A q \in ParsedValues :
    /\ (Eq(p, q) <=> Str(p) = Str(q))
    /\ (Eq(p, q) => Hash(p) = Hash(q))

\* p.copyfile(other) / p.rename(other)
Transfer(op) ==
  /\ client # "None"
  /\ PathIdle
  /\ \E arg \in {StrArg(s) : s \in Strings}
                  \cup {RPathArg(r) : r \in ArgValues} \cup {OtherArg} :
       /\ parg' = arg
       /\ IF arg.kind = "other"
          THEN /\ perr' = "NotImplementedError"
               /\ pcall' = NoCall
          ELSE /\ perr' = "none"
               /\ pcall' = TransferCall(op, p,
                             IF arg.kind = "str" THEN ResolveStr(p, arg.str)
                             ELSE arg.rp)
  /\ UNCHANGED <<p, exceptPath>>

Copyfile == Transfer("operations/copyfile")

Rename == Transfer("operations/movefile")

\* the copyfile / rename returns (or its error has been raised) to the caller
TransferReturn ==
  /\ ~PathIdle
  /\ parg' = NoArg /\ pcall' = NoCall /\ perr' = "none"
  /\ UNCHANGED <<p, exceptPath>>

NextTransfer == Copyfile \/ Rename \/ TransferReturn

SpecTransfer == InitPath /\ [][NextTransfer]_vars

\* the destination the contract of copyfile / rename names for an argument
ClaimedDest(self, arg) ==
  IF arg.kind = "rpath" THEN arg.rp
  ELSE LET m == ReMatch(arg.str)
       IN IF m.matched
          THEN RPathOf(PurePosixPath(m.rest), m.remote)
          ELSE Truediv(Parent(self), m.rest)

\* the arguments the contract covers: a bare relative path string, a fully
\* qualified address string (a backend and a path), an RPath
ClaimCovers(arg) ==
  \/ arg.kind = "rpath"
  \/ /\ arg.kind = "str"
     /\ (ReMatch(arg.str).matched \/ ~StartsWith(arg.str, "/"))

\* C10: copyfile / rename issue their call with self's backend and path as the
\* source; the destination is self.parent joined with other on self's backend
\* for a bare relative path string, the backend and path parsed from other for
\* a fully qualified address string, and the value's backend and path for an
\* RPath; any other argument type fails with a type error and issues no call.
C10_DestinationResolution ==
  /\ parg.kind = "other" => (perr = "NotImplementedError" /\ pcall = NoCall)
  /\ ClaimCovers(parg) =>
       /\ perr = "none"
       /\ pcall.op \in {"operations/copyfile", "operations/movefile"}
       /\ pcall.srcFs = Fs(p) /\ pcall.srcRemote = Remote(p)
       /\ pcall.dstFs = Fs(ClaimedDest(p, parg))
       /\ pcall.dstRemote = Remote(ClaimedDest(p, parg))

(***************************************************************************)
(* SpecBridge: ensure_event_loop_thread, with_awith and arun_until_done.   *)
(* The caller is a thread that either has no running event loop or is      *)
(* inside the running loop 0.  It runs one of two programs:                *)
(*   "ensure"      with ensure_event_loop_thread(): body, where the body   *)
(*                 may enter the scope again                               *)
(*   "with_awith"  with with_awith(resource): body                         *)
(* Loop k >= 1 is created by ensure_event_loop_thread and runs on its own  *)
(* thread.  Loop 0 runs on the caller's thread, so it runs nothing while   *)
(* the caller executes or blocks in synchronous code.                      *)
(***************************************************************************)
Outcomes == {"normal", "ValueError", "RuntimeError"}

\* what contextlib raises when the generator yields again after throw()
DidntStop == "RuntimeError: generator didn't stop after throw()"

\* except RuntimeError: the classes line 55 catches
IsRuntimeError(sig) == sig \in {"RuntimeError", DidntStop}

NewLoop == [alive |-> TRUE, stop |-> FALSE, closed |-> FALSE, orphan |-> FALSE]

Top == stk[Len(stk)]

Pop == SubSeq(stk, 1, Len(stk) - 1)

\* the loop is being run by a thread that can take the next callback
LoopRuns(k) == k # 0 /\ loops[k].alive

\* event_loop_thread.join() returns
ThreadJoinedBug(k) == TRUE

ThreadJoined(k) == ~loops[k].alive

\* services.result() returns or raises
ServicesDoneBug == TRUE

ServicesDone == svc \in {"finished", "failed"}

InitBridge ==
  /\ client = "None"
  /\ a_client = "None"
  /\ InitPathIdle
  /\ InitMountIdle
  /\ InitOthersIdle
  /\ running \in BOOLEAN
  /\ prog \in {"ensure", "with_awith"}
  /\ stk = <<>>
  /\ cpc = "start"
  /\ csig = "normal"
  /\ raised = "normal"
  /\ result = "pending"
  /\ loops = <<>>
  /\ entered = 0
  /\ svc = "none"
  /\ ready = FALSE
  /\ wdone = "clear"
  /\ wexc = "normal"
  /\ nAexit = 0

\* lines 58-62: a new loop, and a thread started on run_event_loop_until_done
StartLoopThread == loops' = Append(loops, NewLoop)

\* ensure_event_loop_thread().__enter__: line 54 yields the running loop, or
\* get_running_loop raises RuntimeError and lines 58-64 start a loop thread
EnsureEnter ==
  /\ \/ cpc = "start"
     \/ cpc = "body" /\ prog = "ensure"
  /\ entered < MaxEnter
  /\ entered' = entered + 1
  /\ IF running
     THEN /\ stk' = Append(stk, [at |-> "yield54", loop |-> 0])
          /\ UNCHANGED loops
     ELSE /\ StartLoopThread
          /\ stk' = Append(stk, [at |-> "yield64", loop |-> Len(loops) + 1])
  /\ cpc' = IF prog = "with_awith" THEN "w79" ELSE "body"
  /\ UNCHANGED <<running, prog, csig, raised, result, svc, ready, wdone, wexc,
                 nAexit, exceptBridge>>

\* the body of the with block ends, normally or by raising
BodyExit ==
  /\ cpc = "body"
  /\ \E o \in Outcomes :
       /\ csig' = o
       /\ raised' = o
  /\ cpc' = "exiting"
  /\ UNCHANGED <<running, prog, stk, result, loops, entered, svc, ready, wdone,
                 wexc, nAexit, exceptBridge>>

\* the scope on top of the stack has been left with outcome o
Leave(o) ==
  /\ stk' = Pop
  /\ IF Pop = <<>>
     THEN /\ cpc' = "done"
          /\ result' = o
          /\ UNCHANGED csig
     ELSE /\ cpc' = IF o = "normal" THEN "body" ELSE "exiting"
          /\ csig' = o
          /\ UNCHANGED result

\* __exit__ of a scope suspended at line 54, left normally (else: return) or
\* by an error line 55 does not catch
ReuseExit ==
  /\ cpc = "exiting"
  /\ Top.at = "yield54"
  /\ ~IsRuntimeError(csig)
  /\ Leave(csig)
  /\ UNCHANGED <<running, prog, raised, loops, entered, svc, ready, wdone, wexc,
                 nAexit, exceptBridge>>

\* __exit__ of a scope suspended at line 54 with a RuntimeError of the body:
\* line 55 catches it, lines 58-64 start a loop thread and yield again, and
\* contextlib raises "generator didn't stop after throw()"; the generator stays
\* suspended at line 64 until it is closed or collected
ReuseExitRuntimeError ==
  /\ cpc = "exiting"
  /\ Top.at = "yield54"
  /\ IsRuntimeError(csig)
  /\ loops' = Append(loops, [NewLoop EXCEPT !.orphan = TRUE])
  /\ Leave(DidntStop)
  /\ UNCHANGED <<running, prog, raised, entered, svc, ready, wdone, wexc,
                 nAexit, exceptBridge>>

\* the abandoned generator is closed: its finally block runs line 66 ...
OrphanStop ==
  /\ \E k \in DOMAIN loops :
       /\ loops[k].orphan /\ ~loops[k].stop
       /\ loops' = [loops EXCEPT ![k].stop = TRUE]
  /\ UNCHANGED <<running, prog, stk, cpc, csig, raised, result, entered, svc,
                 ready, wdone, wexc, nAexit, exceptBridge>>

\* ... and lines 67-69 once the thread has ended
OrphanClose ==
  /\ \E k \in DOMAIN loops :
       /\ loops[k].orphan /\ loops[k].stop /\ ~loops[k].closed
       /\ ThreadJoined(k)
       /\ loops' = [loops EXCEPT ![k].closed = TRUE]
  /\ UNCHANGED <<running, prog, stk, cpc, csig, raised, result, entered, svc,
                 ready, wdone, wexc, nAexit, exceptBridge>>

\* finally, line 66: loop.call_soon_threadsafe(done.set)
OwnSignal ==
  /\ cpc = "exiting"
  /\ Top.at = "yield64"
  /\ loops' = [loops EXCEPT ![Top.loop].stop = TRUE]
  /\ cpc' = "joining"
  /\ UNCHANGED <<running, prog, stk, csig, raised, result, entered, svc, ready,
                 wdone, wexc, nAexit, exceptBridge>>

\* run_event_loop_until_done: done is set, run_until_complete returns, the thread ends
LoopThreadExit ==
  /\ \E k \in DOMAIN loops :
       /\ loops[k].alive /\ loops[k].stop
       /\ loops' = [loops EXCEPT ![k].alive = FALSE]
  /\ UNCHANGED <<running, prog, stk, cpc, csig, raised, result, entered, svc,
                 ready, wdone, wexc, nAexit, exceptBridge>>

\* lines 67-69: join, loop.close(), set_event_loop(None); the scope is left
OwnJoinClose ==
  /\ cpc = "joining"
  /\ ThreadJoined(Top.loop)
  /\ loops' = [loops EXCEPT ![Top.loop].closed = TRUE]
  /\ Leave(csig)
  /\ UNCHANGED <<running, prog, raised, entered, svc, ready, wdone, wexc,
                 nAexit, exceptBridge>>

\* with_awith lines 79-83: the two events, arun_until_done scheduled on the
\* loop, ready.wait() scheduled on the loop and its result waited for
WSchedule ==
  /\ cpc = "w79"
  /\ svc' = "scheduled"
  /\ ready' = FALSE
  /\ wdone' = "clear"
  /\ cpc' = "w83"
  /\ UNCHANGED <<running, prog, stk, csig, raised, result, loops, entered, wexc,
                 nAexit, exceptBridge>>

\* arun_until_done starts on the loop: async with enters __aenter__
AEnterStart ==
  /\ svc = "scheduled"
  /\ LoopRuns(Top.loop)
  /\ svc' = "aenter"
  /\ UNCHANGED <<running, prog, stk, cpc, csig, raised, result, loops, entered,
                 ready, wdone, wexc, nAexit, exceptBridge>>

\* __aenter__ completed: line 32 sets ready, line 33 waits for done
AEnterDone ==
  /\ svc = "aenter"
  /\ LoopRuns(Top.loop)
  /\ svc' = "held"
  /\ ready' = TRUE
  /\ UNCHANGED <<running, prog, stk, cpc, csig, raised, result, loops, entered,
                 wdone, wexc, nAexit, exceptBridge>>

\* __aenter__ raised: the task ends with the error and ready is never set
AEnterFail ==
  /\ svc = "aenter"
  /\ LoopRuns(Top.loop)
  /\ svc' = "failed"
  /\ UNCHANGED <<running, prog, stk, cpc, csig, raised, result, loops, entered,
                 ready, wdone, wexc, nAexit, exceptBridge>>

\* line 83 returns: ready.wait() completed on the loop; line 84 yields
WReady ==
  /\ cpc = "w83"
  /\ ready
  /\ LoopRuns(Top.loop)
  /\ cpc' = "wbody"
  /\ UNCHANGED <<running, prog, stk, csig, raised, result, loops, entered, svc,
                 ready, wdone, wexc, nAexit, exceptBridge>>

\* the body of with with_awith(...) ends; finally, line 86:
\* loop.call_soon_threadsafe(done.set), then line 87 waits for services
WBodyExit ==
  /\ cpc = "wbody"
  /\ \E o \in Outcomes :
       /\ wexc' = o
       /\ raised' = o
  /\ wdone' = "requested"
  /\ cpc' = "w87"
  /\ UNCHANGED <<running, prog, stk, csig, result, loops, entered, svc, ready,
                 nAexit, exceptBridge>>

\* the loop runs the callback done.set
LoopSetDone ==
  /\ wdone = "requested"
  /\ LoopRuns(Top.loop)
  /\ wdone' = "set"
  /\ UNCHANGED <<running, prog, stk, cpc, csig, raised, result, loops, entered,
                 svc, ready, wexc, nAexit, exceptBridge>>

\* done.wait() returns in arun_until_done: async with calls __aexit__
AExitStart ==
  /\ svc = "held"
  /\ wdone = "set"
  /\ LoopRuns(Top.loop)
  /\ svc' = "aexit"
  /\ nAexit' = nAexit + 1
  /\ UNCHANGED <<running, prog, stk, cpc, csig, raised, result, loops, entered,
                 ready, wdone, wexc, exceptBridge>>

\* __aexit__ returned or raised: the task arun_until_done is done
AExitEnd ==
  /\ svc = "aexit"
  /\ LoopRuns(Top.loop)
  /\ svc' \in {"finished", "failed"}
  /\ UNCHANGED <<running, prog, stk, cpc, csig, raised, result, loops, entered,
                 ready, wdone, wexc, nAexit, exceptBridge>>

\* line 87 returns or raises the task's error; the with ensure_event_loop_thread
\* block of with_awith is left
WServicesResult ==
  /\ cpc = "w87"
  /\ ServicesDone
  /\ csig' = IF svc = "failed" THEN "ResourceError" ELSE wexc
  /\ cpc' = "exiting"
  /\ UNCHANGED <<running, prog, stk, raised, result, loops, entered, svc, ready,
                 wdone, wexc, nAexit, exceptBridge>>

NextBridge ==
  \/ EnsureEnter
  \/ BodyExit
  \/ ReuseExit
  \/ ReuseExitRuntimeError
  \/ OrphanStop
  \/ OrphanClose
  \/ OwnSignal
  \/ LoopThreadExit
  \/ OwnJoinClose
  \/ WSchedule
  \/ AEnterStart
  \/ AEnterDone
  \/ AEnterFail
  \/ WReady
  \/ WBodyExit
  \/ LoopSetDone
  \/ AExitStart
  \/ AExitEnd
  \/ WServicesResult

SpecBridge == InitBridge /\ [][NextBridge]_vars

\* the body of with with_awith(...) has started / has ended
BodyStarted ==
  prog = "with_awith" /\ cpc \in {"wbody", "w87", "exiting", "joining", "done"}

BodyExited ==
  prog = "with_awith" /\ cpc \in {"w87", "exiting", "joining", "done"}

\* C1: with_awith: the body starts only after __aenter__ has completed; once
\* the resource is acquired and the body has started, __aexit__ runs exactly
\* once, it starts only after the body has ended (normally or by raising), and
\* with_awith is left only after __aexit__ has finished.
C1_TeardownOnceAfterBodyBeforeReturn ==
  prog = "with_awith" =>
    /\ nAexit <= 1
    /\ (cpc = "wbody" => svc = "held" /\ ready)
    /\ (nAexit >= 1 \/ svc = "aexit" => BodyExited)
    /\ (BodyStarted /\ cpc \in {"exiting", "joining", "done"} =>
          nAexit = 1 /\ svc \in {"finished", "failed"})

\* with_awith has returned after a body that raised, with the teardown done
C1_Witness ==
  /\ prog = "with_awith"
  /\ cpc = "done"
  /\ raised = "ValueError"
  /\ result = "ValueError"
  /\ nAexit = 1
  /\ svc = "finished"

\* a scope still entered holds loop k
OwnedBy(k) == \E i \in DOMAIN stk : stk[i].loop = k

\* C7: ensure_event_loop_thread entered inside a running scheduler yields that
\* scheduler and starts no thread and no scheduler, however its body ends
\* (normally or by an error of any type, RuntimeError included), the body's
\* error reaches the caller unchanged, and nesting it starts no thread either.
C7_ReuseStartsNothingAndPropagates ==
  running =>
    /\ loops = <<>>
    /\ \A i \in DOMAIN stk : stk[i].loop = 0 /\ stk[i].at = "yield54"
    /\ (cpc = "done" => result = raised)

\* C8: ensure_event_loop_thread entered with no running scheduler starts one
\* scheduler on one dedicated thread per scope, and when the scope has been
\* left (normally or by the body raising) the thread has been signalled to
\* stop and has ended, and the scheduler is closed: no scheduler thread
\* outlives its scope.
C8_OneThreadPerScopeJoinedOnExit ==
  ~running =>
    /\ Len(loops) = entered
    /\ \A k \in DOMAIN loops :
         (loops[k].alive \/ ~loops[k].stop \/ ~loops[k].closed) => OwnedBy(k)
    /\ (cpc = "done" =>
          \A k \in DOMAIN loops :
            ~loops[k].alive /\ loops[k].stop /\ loops[k].closed)

\* two nested scopes, each with its own thread, left by a RuntimeError of the body
C8_Witness ==
  /\ ~running
  /\ prog = "ensure"
  /\ cpc = "done"
  /\ Len(loops) = 2
  /\ raised = "RuntimeError"
  /\ result = "RuntimeError"

(***************************************************************************)
(* SpecAwith: awith_with and with_thread.  A coroutine on a running event  *)
(* loop enters async with awith_with(withfn); the blocking resource lives  *)
(* on a worker thread started by asyncio.to_thread.  The coroutine can be  *)
(* cancelled wherever it is suspended: at ready.get(), in its body, and at *)
(* the final await of the worker's task.                                   *)
(***************************************************************************)
MaxCancels == 2  \* most cancellations delivered to one async scope

\* the values withfn().__enter__ can return
CtxValues == {"r1", "r2"}

\* outer.cancel() while the coroutine awaits the task: the cancellation is
\* passed on to the task and to the executor's future, the task ends
\* cancelled, and the await raises CancelledError; a work item no thread has
\* picked up is dropped, a running with_thread is not interrupted
WorkerAfterCancel == IF wpc = "queued" THEN "dropped" ELSE wpc

\* await task (line 111) returns or raises
TaskSettled == tstate \in {"finished", "failed"}

InitAwith ==
  /\ client = "None"
  /\ a_client = "None"
  /\ InitPathIdle
  /\ InitMountIdle
  /\ InitBridgeIdle
  /\ InitOpIdle
  /\ InitOpenIdle
  /\ InitPointIdle
  /\ InitParseIdle
  /\ InitScopeIdle
  /\ InitCallIdle
  /\ apc = "a101"
  /\ aexc = "normal"
  /\ wpc = "none"
  /\ wret = "none"
  /\ tstate = "none"
  /\ rq = <<>>
  /\ adone = FALSE
  /\ actx = "none"
  /\ nExit = 0
  /\ acquired = FALSE
  /\ cancels = 0

\* lines 101-106: the queue, the event, the task around to_thread(with_thread),
\* and the coroutine suspends in ready.get()
AwithEnter ==
  /\ apc = "a101"
  /\ rq' = <<>>
  /\ adone' = FALSE
  /\ wpc' = "queued"
  /\ tstate' = "pending"
  /\ apc' = "get"
  /\ UNCHANGED <<aexc, actx, nExit, acquired, cancels, wret,
                 exceptAwith>>

\* a thread of the executor picks up with_thread
WorkerStart ==
  /\ wpc = "queued"
  /\ wpc' = "enter"
  /\ UNCHANGED <<apc, aexc, tstate, rq, adone, actx, nExit, acquired, cancels,
                 wret,
                 exceptAwith>>

\* line 90: withfn().__enter__() returns a value, or raises
WorkerEnter ==
  /\ wpc = "enter"
  /\ \/ \E v \in CtxValues :
          /\ acquired' = TRUE
          /\ wret' = v
          /\ wpc' = "put"
     \/ /\ wpc' = "failed"
        /\ UNCHANGED <<acquired, wret>>
  /\ UNCHANGED <<apc, aexc, tstate, rq, adone, actx, nExit, cancels,
                 exceptAwith>>

\* line 91: ready.put(ret) runs on the loop and its result is returned
WorkerPut ==
  /\ wpc = "put"
  /\ rq' = Append(rq, wret)
  /\ wpc' = "wait"
  /\ UNCHANGED <<apc, aexc, tstate, adone, actx, nExit, acquired, cancels,
                 wret,
                 exceptAwith>>

\* line 92 returns: done.wait() completed on the loop; the with block of
\* with_thread is left and __exit__ starts
WorkerDone ==
  /\ wpc = "wait"
  /\ adone
  /\ wpc' = "exit"
  /\ nExit' = nExit + 1
  /\ UNCHANGED <<apc, aexc, tstate, rq, adone, actx, acquired, cancels,
                 wret,
                 exceptAwith>>

\* __exit__ returns or raises: with_thread ends
WorkerExitEnd ==
  /\ wpc = "exit"
  /\ wpc' \in {"finished", "failed"}
  /\ UNCHANGED <<apc, aexc, tstate, rq, adone, actx, nExit, acquired, cancels,
                 wret,
                 exceptAwith>>

\* the loop learns that the thread ended: the task is done
TaskSettle ==
  /\ tstate = "pending"
  /\ wpc \in {"finished", "failed"}
  /\ tstate' = wpc
  /\ UNCHANGED <<apc, aexc, wpc, rq, adone, actx, nExit, acquired, cancels,
                 wret,
                 exceptAwith>>

\* lines 106-108: ready.get() returns the value, task_done, yield ctx
AwithGet ==
  /\ apc = "get"
  /\ rq # <<>>
  /\ actx' = Head(rq)
  /\ rq' = Tail(rq)
  /\ apc' = "body"
  /\ UNCHANGED <<aexc, wpc, tstate, adone, nExit, acquired, cancels,
                 wret,
                 exceptAwith>>

\* the coroutine is cancelled while suspended in ready.get(): finally,
\* lines 110-111, done.set() and await task
AwithCancelAtGet ==
  /\ apc = "get"
  /\ cancels < MaxCancels
  /\ cancels' = cancels + 1
  /\ aexc' = "cancelled"
  /\ adone' = TRUE
  /\ apc' = "final"
  /\ UNCHANGED <<wpc, tstate, rq, actx, nExit, acquired, wret,
                 exceptAwith>>

\* the body of the async with block ends normally, by an error, or by a
\* cancellation delivered in it: finally, lines 110-111
AwithBodyExit ==
  /\ apc = "body"
  /\ \/ /\ aexc' \in {"normal", "error"}
        /\ UNCHANGED cancels
     \/ /\ cancels < MaxCancels
        /\ cancels' = cancels + 1
        /\ aexc' = "cancelled"
  /\ adone' = TRUE
  /\ apc' = "final"
  /\ UNCHANGED <<wpc, tstate, rq, actx, nExit, acquired, wret,
                 exceptAwith>>

\* the coroutine is cancelled while suspended in await task (line 111)
AwithCancelAtFinal ==
  /\ apc = "final"
  /\ tstate = "pending"
  /\ cancels < MaxCancels
  /\ cancels' = cancels + 1
  /\ tstate' = "cancelled"
  /\ wpc' = WorkerAfterCancel
  /\ aexc' = "cancelled"
  /\ apc' = "exited"
  /\ UNCHANGED <<rq, adone, actx, nExit, acquired, wret,
                 exceptAwith>>

\* await task (line 111) returns, or raises what with_thread raised
AwithFinalReturn ==
  /\ apc = "final"
  /\ TaskSettled
  /\ aexc' = IF tstate = "failed" THEN "WorkerError" ELSE aexc
  /\ apc' = "exited"
  /\ UNCHANGED <<wpc, tstate, rq, adone, actx, nExit, acquired, cancels,
                 wret,
                 exceptAwith>>

NextAwith ==
  \/ AwithEnter
  \/ WorkerStart
  \/ WorkerEnter
  \/ WorkerPut
  \/ WorkerDone
  \/ WorkerExitEnd
  \/ TaskSettle
  \/ AwithGet
  \/ AwithCancelAtGet
  \/ AwithBodyExit
  \/ AwithCancelAtFinal
  \/ AwithFinalReturn

SpecAwith == InitAwith /\ [][NextAwith]_vars

\* C2: awith_with: once the worker thread has acquired the blocking resource,
\* its __exit__ runs at most once and only after the async scope has set the
\* done event, and the async scope is left only after the worker has run
\* __exit__ and finished, whether the scope is left normally, by an error, or
\* by a cancellation delivered at ready.get(), in the body, or at the final
\* await of the worker.
C2_WorkerTeardownBeforeScopeExit ==
  /\ nExit <= 1
  /\ (nExit >= 1 \/ wpc = "exit" => adone /\ acquired)
  /\ (apc = "exited" /\ acquired =>
        nExit = 1 /\ wpc \in {"finished", "failed"})

(***************************************************************************)
(* SpecSession: one bridge session, awith_rclone over awith_tasks, entered *)
(* with async with awith_rclone() on a running loop or through             *)
(* with_rclone, where arun_until_done holds the scope on the loop thread.  *)
(* Task 1 is rclone_rcd, task 2 is rclone_rc_bridge.  Both are created     *)
(* before the scope first suspends, so both have started by the time the   *)
(* scope can be left.                                                      *)
(***************************************************************************)
\* how the body of the session can end: normally or by raising, and under
\* async with awith_rclone() also by a cancellation
BodyOutcomes ==
  IF sform = "with_rclone" THEN {"normal", "BodyError"}
  ELSE {"normal", "BodyError", "cancelled"}

\* how awith_tasks' yield (line 14) ends.  Under with_rclone the scope is held
\* by arun_until_done, whose done.wait() returns whether or not the blocking
\* body raised, so the yield always ends normally.
ScopeOutcome(o) == IF sform = "with_rclone" THEN "normal" ELSE o

\* the errors a task can end with on its own
TaskErrors == {"RCloneExited", "LaunchError"}

\* line 19 with the suppress of line 18: await task returns once the task is
\* cancelled, and raises at once the error of a task that already failed
AwaitReady(i) == tsk[i] \in {"cancelled"} \cup TaskErrors

InitSession ==
  /\ client = "None"
  /\ a_client = "None"
  /\ InitPathIdle
  /\ InitMountIdle
  /\ InitBridgeIdle
  /\ InitOpIdle
  /\ InitOpenIdle
  /\ InitPointIdle
  /\ InitParseIdle
  /\ InitAwithIdle
  /\ InitCallIdle
  /\ sform \in {"with_rclone", "awith_rclone"}
  /\ spc = "start"
  /\ bexc = "normal"
  /\ sexc = "normal"
  /\ ti = 1
  /\ tsk = [i \in Tasks |-> "none"]
  /\ creq = {}

\* awith_rclone lines 387-392: both tasks are created, awith_tasks is entered
\* and the scope suspends in sleep(1)
SessionEnter ==
  /\ spc = "start"
  /\ tsk' = [i \in Tasks |-> "created"]
  /\ spc' = "sleep"
  /\ UNCHANGED <<client, a_client, sform, bexc, sexc, ti, creq, exceptScope>>

\* rclone_rcd starts: line 348 launches the subprocess and line 350 waits for
\* it, or line 348 raises because the subprocess cannot be launched
RcdStart ==
  /\ tsk[1] = "created"
  /\ \E st \in {"running", "LaunchError"} : tsk' = [tsk EXCEPT ![1] = st]
  /\ UNCHANGED <<client, a_client, sform, spc, bexc, sexc, ti, creq,
                 exceptScope>>

\* the subprocess ends on its own: line 351 raises RCloneExited and the task
\* is done with that error
RcdExit ==
  /\ tsk[1] = "running"
  /\ tsk' = [tsk EXCEPT ![1] = "RCloneExited"]
  /\ UNCHANGED <<client, a_client, sform, spc, bexc, sexc, ti, creq,
                 exceptScope>>

\* rclone_rc_bridge starts: lines 373 and 378 set RPath.a_client and
\* RPath.client, line 380 waits forever
BridgeStart ==
  /\ tsk[2] = "created"
  /\ tsk[1] # "created"
  /\ tsk' = [tsk EXCEPT ![2] = "running"]
  /\ a_client' = "set"
  /\ client' = "set"
  /\ UNCHANGED <<sform, spc, bexc, sexc, ti, creq, exceptScope>>

\* line 392 returns and line 393 yields: the body of the session runs
SleepDone ==
  /\ spc = "sleep"
  /\ \A i \in Tasks : tsk[i] # "created"
  /\ spc' = "body"
  /\ UNCHANGED <<client, a_client, sform, bexc, sexc, ti, tsk, creq,
                 exceptScope>>

\* the scope is cancelled in sleep(1), or its body ends: awith_tasks' finally
ScopeExit ==
  /\ \A i \in Tasks : tsk[i] # "created"
  /\ \E o \in BodyOutcomes :
       /\ \/ spc = "sleep" /\ o = "cancelled"
          \/ spc = "body"
       /\ bexc' = o
       /\ sexc' = ScopeOutcome(o)
  /\ spc' = "cancel"
  /\ ti' = 1
  /\ UNCHANGED <<client, a_client, sform, tsk, creq, exceptScope>>

\* line 17: task.cancel(); a task that is already done is left as it is
CancelTask ==
  /\ spc = "cancel"
  /\ creq' = creq \cup {ti}
  /\ tsk' = [tsk EXCEPT ![ti] = IF @ = "running" THEN "cancelling" ELSE @]
  /\ spc' = "await"
  /\ UNCHANGED <<client, a_client, sform, bexc, sexc, ti, exceptScope>>

\* rclone_rcd receives CancelledError at line 350: lines 352-355, SIGINT is
\* sent and the subprocess waited for
RcdInterrupt ==
  /\ tsk[1] = "cancelling"
  /\ tsk' = [tsk EXCEPT ![1] = "stopping"]
  /\ UNCHANGED <<client, a_client, sform, spc, bexc, sexc, ti, creq,
                 exceptScope>>

\* the subprocess has ended: line 356 re-raises and the task ends cancelled
RcdCancelled ==
  /\ tsk[1] = "stopping"
  /\ tsk' = [tsk EXCEPT ![1] = "cancelled"]
  /\ UNCHANGED <<client, a_client, sform, spc, bexc, sexc, ti, creq,
                 exceptScope>>

\* rclone_rc_bridge receives CancelledError at line 380: lines 381-383
BridgeCancelled ==
  /\ tsk[2] = "cancelling"
  /\ tsk' = [tsk EXCEPT ![2] = "cancelled"]
  /\ a_client' = "None"
  /\ client' = "None"
  /\ UNCHANGED <<sform, spc, bexc, sexc, ti, creq, exceptScope>>

\* lines 18-19 for a cancelled task: CancelledError is suppressed and the
\* loop goes on with the next task, or the scope is left
AwaitCancelled ==
  /\ spc = "await"
  /\ AwaitReady(ti)
  /\ tsk[ti] = "cancelled"
  /\ IF ti < Len(TaskNames)
     THEN /\ ti' = ti + 1
          /\ spc' = "cancel"
     ELSE /\ spc' = "exited"
          /\ UNCHANGED ti
  /\ UNCHANGED <<client, a_client, sform, bexc, sexc, tsk, creq, exceptScope>>

\* lines 18-19 for a task that failed: await task raises its error, which
\* suppress does not catch; it leaves the for loop and the scope
AwaitFailed ==
  /\ spc = "await"
  /\ AwaitReady(ti)
  /\ tsk[ti] \in TaskErrors
  /\ sexc' = tsk[ti]
  /\ spc' = "exited"
  /\ UNCHANGED <<client, a_client, sform, bexc, ti, tsk, creq, exceptScope>>

\* after the scope is left a rclone_rc_bridge task that was never cancelled
\* stays pending; when the interpreter collects it, closing the coroutine
\* runs lines 381-383
BridgeCollected ==
  /\ spc = "exited"
  /\ tsk[2] = "running"
  /\ tsk' = [tsk EXCEPT ![2] = "collected"]
  /\ a_client' = "None"
  /\ client' = "None"
  /\ UNCHANGED <<sform, spc, bexc, sexc, ti, creq, exceptScope>>

NextSession ==
  \/ SessionEnter
  \/ RcdStart
  \/ RcdExit
  \/ BridgeStart
  \/ SleepDone
  \/ ScopeExit
  \/ CancelTask
  \/ RcdInterrupt
  \/ RcdCancelled
  \/ BridgeCancelled
  \/ AwaitCancelled
  \/ AwaitFailed
  \/ BridgeCollected

SpecSession == InitSession /\ [][NextSession]_vars

\* C3: awith_tasks: when the scope has been left, by any path, cancel() has
\* been called on every supervised task and every task has been awaited to
\* its end, whatever state it was in (running, or already failed); the error of
\* a failed task leaves the scope only after all tasks were cancelled and joined.
C3_AllTasksCancelledAndJoinedOnExit ==
  spc = "exited" =>
    \A i \in Tasks : i \in creq /\ tsk[i] \in {"cancelled"} \cup TaskErrors

\* C4: RPath.client and RPath.a_client are None before the session starts, are
\* set together by the rclone_rc_bridge task, and are both None again once the
\* session scope has been left, by a normal exit, by the body raising, or after
\* rclone_rcd ended on its own with RCloneExited.
C4_ClientAbsentOutsideSession ==
  /\ (client = "None") = (a_client = "None")
  /\ (spc = "start" => client = "None" /\ a_client = "None")
  /\ (spc = "exited" => client = "None" /\ a_client = "None")

(***************************************************************************)
(* SpecClient: RPath.client during a session.  Entered with with_rclone,   *)
(* the session's loop runs on the dedicated thread that                    *)
(* ensure_event_loop_thread started; entered with async with               *)
(* awith_rclone(), it is the running loop of the thread that entered.      *)
(* Three callers make blocking calls:                                      *)
(*   starter  the code that entered the session                            *)
(*   other    any other thread                                             *)
(*   sched    a coroutine on the session's loop                            *)
(***************************************************************************)
MaxCalls == 2  \* most calls one thread issues

\* asyncio.get_event_loop() of line 375, evaluated in the calling thread.
\* utils.py line 59 made the session's loop current in the starter thread and
\* line 44 in the loop's thread.  Any other thread has no current loop: the
\* call raises RuntimeError, or, in the main thread, the policy creates a
\* fresh loop that nothing runs.
GetEventLoop(t) ==
  IF t = "other" THEN {"RuntimeError", "fresh"} ELSE {"session"}

\* the callers that execute on the thread of the session's loop
OnLoopThread ==
  IF sform = "awith_rclone" THEN {"starter", "sched"} ELSE {"sched"}

\* the loop's thread is inside Future.result() of line 375 and runs no callback
LoopBlocked == \E t \in OnLoopThread : tpc[t] = "blocked"

InitClient ==
  /\ client = "set"
  /\ a_client = "set"
  /\ InitPathIdle
  /\ InitMountIdle
  /\ InitBridgeIdle
  /\ InitOpIdle
  /\ InitOpenIdle
  /\ InitPointIdle
  /\ InitParseIdle
  /\ InitAwithIdle
  /\ sform \in {"with_rclone", "awith_rclone"}
  /\ spc = "body"
  /\ bexc = "normal"
  /\ sexc = "normal"
  /\ ti = 1
  /\ tsk = [i \in Tasks |-> "running"]
  /\ creq = {}
  /\ tpc = [t \in Threads |-> "idle"]
  /\ rpc = [t \in Threads |-> "none"]
  /\ ncalls = [t \in Threads |-> 0]

\* line 375: run_coroutine_threadsafe(a_client(...), get_event_loop()) and the
\* wait in .result()
ClientCall(t) ==
  /\ client = "set"
  /\ tpc[t] \in {"idle", "returned", "raised"}
  /\ t \in OnLoopThread => ~LoopBlocked
  /\ ncalls[t] < MaxCalls
  /\ ncalls' = [ncalls EXCEPT ![t] = @ + 1]
  /\ \E lp \in GetEventLoop(t) :
       CASE lp = "RuntimeError" ->
              /\ tpc' = [tpc EXCEPT ![t] = "raised"]
              /\ rpc' = [rpc EXCEPT ![t] = "none"]
         [] lp = "session" ->
              /\ tpc' = [tpc EXCEPT ![t] = "blocked"]
              /\ rpc' = [rpc EXCEPT ![t] = "scheduled"]
         [] lp = "fresh" ->
              /\ tpc' = [tpc EXCEPT ![t] = "blocked"]
              /\ rpc' = [rpc EXCEPT ![t] = "stranded"]
  /\ UNCHANGED exceptCall

\* the session's loop starts the coroutine a_client: lines 366-371 post the request
RpcStart(t) ==
  /\ rpc[t] = "scheduled"
  /\ ~LoopBlocked
  /\ rpc' = [rpc EXCEPT ![t] = "posted"]
  /\ UNCHANGED <<tpc, ncalls, exceptCall>>

\* line 372: the response arrives and the coroutine returns resp.json()
RpcRespond(t) ==
  /\ rpc[t] = "posted"
  /\ ~LoopBlocked
  /\ rpc' = [rpc EXCEPT ![t] = "done"]
  /\ UNCHANGED <<tpc, ncalls, exceptCall>>

\* lines 375-377: .result() returns and client returns the response
ClientReturn(t) ==
  /\ tpc[t] = "blocked"
  /\ rpc[t] = "done"
  /\ tpc' = [tpc EXCEPT ![t] = "returned"]
  /\ rpc' = [rpc EXCEPT ![t] = "none"]
  /\ UNCHANGED <<ncalls, exceptCall>>

NextClient ==
  \E t \in Threads :
    \/ ClientCall(t)
    \/ RpcStart(t)
    \/ RpcRespond(t)
    \/ ClientReturn(t)

SpecClient == InitClient /\ [][NextClient]_vars

\* the call of thread t can never return: its coroutine sits on a loop that
\* nothing runs, or on the session's loop whose thread is itself blocked
Stuck(t) ==
  /\ tpc[t] = "blocked"
  /\ \/ rpc[t] = "stranded"
     \/ rpc[t] \in {"scheduled", "posted"} /\ LoopBlocked

\* C6: during a session a blocking RPath.client call from any thread (the
\* starter, any other thread, the loop's own thread) is scheduled on the
\* session's loop and returns the response: no call raises instead, and no
\* call is left waiting for a result that cannot come.
C6_EveryCallReturns ==
  \A t \in Threads : tpc[t] # "raised" /\ ~Stuck(t)

(***************************************************************************)
(* SpecParse: RPath(s) for a string s, its rendering str(...), and the     *)
(* parse and rendering of that rendering.                                  *)
(***************************************************************************)
MaxParseLen == 4  \* longest string parsed and rendered again

\* the alphabet of the strings parsed: letters, the separators of an address,
\* and the characters of a connection string
ParseChars == Chars \cup {",", "="}

ParseStrings == UNION {[1..k -> ParseChars] : k \in 0..MaxParseLen}

\* what RPath(s) raises for a string s in an active session: re.match always
\* matches a string without a line break, so nothing
ConstructError(s) == "none"

InitParse ==
  /\ client = "set"
  /\ a_client = "set"
  /\ InitPathIdle
  /\ InitMountIdle
  /\ InitBridgeIdle
  /\ InitOpIdle
  /\ InitOpenIdle
  /\ InitPointIdle
  /\ InitAwithIdle
  /\ InitScopeIdle
  /\ InitCallIdle
  /\ isrc \in ParseStrings
  /\ ipc = "input"
  /\ ierr = "none"
  /\ ival = RPathOf(EmptyPath, LocalSentinel)
  /\ istr = EmptyStr
  /\ ival2 = RPathOf(EmptyPath, LocalSentinel)
  /\ istr2 = EmptyStr

\* ival = RPath(isrc), lines 45-48
Construct ==
  /\ ipc = "input"
  /\ client # "None"
  /\ ierr' = ConstructError(isrc)
  /\ ival' = RPathStr(isrc)
  /\ ipc' = "parsed"
  /\ UNCHANGED <<isrc, istr, ival2, istr2, exceptParse>>

\* istr = str(ival), lines 73-83
Render ==
  /\ ipc = "parsed"
  /\ ierr = "none"
  /\ istr' = Str(ival)
  /\ ipc' = "rendered"
  /\ UNCHANGED <<isrc, ierr, ival, ival2, istr2, exceptParse>>

\* ival2 = RPath(istr)
Reconstruct ==
  /\ ipc = "rendered"
  /\ client # "None"
  /\ ival2' = RPathStr(istr)
  /\ ipc' = "reparsed"
  /\ UNCHANGED <<isrc, ierr, ival, istr, istr2, exceptParse>>

\* istr2 = str(ival2)
Rerender ==
  /\ ipc = "reparsed"
  /\ istr2' = Str(ival2)
  /\ ipc' = "rerendered"
  /\ UNCHANGED <<isrc, ierr, ival, istr, ival2, exceptParse>>

NextParse == Construct \/ Render \/ Reconstruct \/ Rerender

SpecParse == InitParse /\ [][NextParse]_vars

\* C18: for every path string s (local absolute, local relative, backend
\* qualified), the rendering of RPath(s) is a fixed point of parse-then-render:
\* str(RPath(str(RPath(s)))) = str(RPath(s)), and RPath(str(RPath(s))) equals
\* RPath(s).
C18_ParseRenderIdempotent ==
  ipc = "rerendered" => istr2 = istr /\ Eq(ival2, ival)

\* the number of double quotes among the first n characters of s
RECURSIVE QuotesBefore(_, _)
QuotesBefore(s, n) ==
  IF n = 0 THEN 0
  ELSE QuotesBefore(s, n - 1) + (IF s[n] = "\"" THEN 1 ELSE 0)

\* position i of s lies outside every quoted segment
Unquoted(s, i) == QuotesBefore(s, i - 1) % 2 = 0 /\ s[i] # "\""

\* a quoted segment is opened and never closed
MalformedQuoting(s) == QuotesBefore(s, Len(s)) % 2 = 1

\* the colons of s outside quoted segments
TopLevelColons(s) == {i \in 1..Len(s) : s[i] = ":" /\ Unquoted(s, i)}

\* the stated grammar: the backend is one or more groups (plain characters or
\* a quoted string) ended by the first top-level colon; without such a prefix
\* the backend is the local sentinel and the whole string is the path
GrammarParse(s) ==
  LET cs == TopLevelColons(s)
      i == IF cs = {} THEN 0 ELSE CHOOSE k \in cs : \A j \in cs : k <= j
  IN IF i > 1
     THEN [remote |-> SubSeq(s, 1, i),
           path |-> PurePosixPath(SubSeq(s, i + 1, Len(s)))]
     ELSE [remote |-> LocalSentinel, path |-> PurePosixPath(s)]

\* C19: for every string over ':', '"', '/', ',', '=' and letters, RPath(s)
\* has the backend and path of the stated grammar, so its backend holds a colon
\* only inside quoted segments or as its last character (the local sentinel
\* aside), and a string with malformed quoting is rejected with a parse error.
C19_ParserConformsToGrammar ==
  ipc # "input" =>
    IF MalformedQuoting(isrc)
    THEN ierr = "ParseError"
    ELSE /\ ierr = "none"
         /\ ival = GrammarParse(isrc)
         /\ \/ ival.remote = LocalSentinel
            \/ TopLevelColons(ival.remote) = {Len(ival.remote)}

(***************************************************************************)
(* SpecOps: the file operations of RPath on a directory d and its          *)
(* children, each in its blocking and in its suspension-point form.  Every *)
(* operation is one step: it issues its calls in order and reads each      *)
(* response.  A response comes from the control plane's file tree, which   *)
(* applies the call or refuses it with an error object, or it is a failure *)
(* of the control plane that leaves the tree as it is.                     *)
(***************************************************************************)
\* the names of the children of d
ONames == {<<"a">>, <<"b">>}

\* the texts written and read, as sequences of pieces; len(text) is the number
\* of pieces
Texts == {<<"h", "i">>, <<"not found">>}

NotFoundIndicator == "not found"

NoSuchFile == "no such file or directory"

Entries == {AbsentEntry, DirEntry} \cup {FileEntry(t) : t \in Texts}

Forms == {"blocking", "async"}

\* the operations of the path, by the name of their blocking form
OpNames ==
  {"stat", "exists", "is_file", "mount", "open", "unlink", "mkdir", "rmdir",
   "copyfile", "rename", "iterdir", "read_text", "write_text"}

\* the name of the suspension-point form
AsyncName ==
  [n \in OpNames |->
     CASE n = "stat" -> "a_stat" [] n = "exists" -> "a_exists"
       [] n = "is_file" -> "a_is_file" [] n = "mount" -> "a_mount"
       [] n = "open" -> "a_open" [] n = "unlink" -> "a_unlink"
       [] n = "mkdir" -> "a_mkdir" [] n = "rmdir" -> "a_rmdir"
       [] n = "copyfile" -> "a_copyfile" [] n = "rename" -> "a_rename"
       [] n = "iterdir" -> "a_iterdir" [] n = "read_text" -> "a_read_text"
       [] n = "write_text" -> "a_write_text"]

\* the methods class RPath defines
Methods ==
  {"stat", "a_stat", "exists", "a_exists", "is_file", "a_is_file", "mount",
   "a_mount", "open", "unlink", "a_unlink", "mkdir", "a_mkdir", "rmdir",
   "a_rmdir", "copyfile", "a_copyfile", "rename", "a_rename", "iterdir",
   "a_iterdir", "read_text", "a_read_text", "write_text", "a_write_text"}

MethodName(name, form) == IF form = "async" THEN AsyncName[name] ELSE name

\* the entry point a form calls
Via(form) == IF form = "async" THEN "RPath.a_client" ELSE "RPath.client"

\* the calls an operation issued and what it returned or raised
Out(log, res) == [log |-> log, res |-> res]

\* a call raised: the operation does not catch it
Propagated(ret) == Raised(ret.raised, NoText)

StatCall(via, self) == FsCall(via, "operations/stat", Fs(self), Remote(self))

\* not ret.get('item')
ItemMissingBug(ret) == FALSE

ItemMissing(ret) == ret.item \in {"absent", "null"}

\* stat / a_stat, lines 97-108
StatRun(via, self, rs) ==
  LET ret == rs[1]
  IN Out(<<StatCall(via, self)>>,
         IF ret.raised # "none" THEN Propagated(ret)
         ELSE IF ItemMissing(ret) THEN Raised("FileNotFoundError", Remote(self))
         ELSE ReturnedItem(ret.item))

\* exists / a_exists, lines 110-118
ExistsRun(via, self, rs) ==
  LET st == StatRun(via, self, rs)
  IN Out(st.log,
         IF st.res.status = "FileNotFoundError" THEN ReturnedBool(FALSE)
         ELSE IF st.res.status = "ok" THEN ReturnedBool(TRUE)
         ELSE st.res)

\* is_file / a_is_file, lines 120-126: not stat['IsDir']
IsFileRun(via, self, rs) ==
  LET st == StatRun(via, self, rs)
  IN Out(st.log,
         IF st.res.status # "ok" THEN st.res
         ELSE ReturnedBool(st.res.item # "dir"))

\* unlink / a_unlink, lines 176-180: the response is not read
UnlinkRun(via, self, rs) ==
  LET ret == rs[1]
  IN Out(<<FsCall(via, "operations/deletefile", Fs(self), Remote(self))>>,
         IF ret.raised # "none" THEN Propagated(ret) ELSE ReturnedNone)

MkdirCallBug(via, self) ==
  FsCall(via, "operations/mkdir", Fs(self), Remote(Parent(self)))

MkdirCall(via, self) == FsCall(via, "operations/mkdir", Fs(self), Remote(self))

\* mkdir / a_mkdir, lines 182-196
MkdirRun(via, self, exist_ok, rs) ==
  LET e == ExistsRun(via, self, rs)
      ret == rs[2]
  IN IF e.res.status # "ok" THEN e
     ELSE IF e.res.flag
     THEN Out(e.log, IF ~exist_ok
                     THEN Raised("FileExistsError", PathStr(self.path))
                     ELSE ReturnedNone)
     ELSE Out(Append(e.log, MkdirCall(via, self)),
              IF ret.raised # "none" THEN Propagated(ret) ELSE ReturnedNone)

\* 'no such file or directory' in ret['error']
NoSuchFileInBug(msg) == FALSE

NoSuchFileIn(msg) == Contains(msg, NoSuchFile)

\* rmdir / a_rmdir, lines 198-216
RmdirRun(via, self, rs) ==
  LET e == ExistsRun(via, self, rs)
      ret == rs[2]
      log == Append(e.log, FsCall(via, "operations/rmdir", Fs(self), Remote(self)))
  IN IF e.res.status # "ok" THEN e
     ELSE IF ~e.res.flag
     THEN Out(e.log, Raised("FileNotFoundError", PathStr(self.path)))
     ELSE Out(log,
              IF ret.raised # "none" THEN Propagated(ret)
              ELSE IF ret.errkey = "absent" THEN ReturnedNone
              ELSE IF ret.errkey # "message" THEN Raised("TypeError", NoText)
              ELSE IF NoSuchFileIn(ret.errmsg)
              THEN Raised("FileNotFoundError", PathStr(self.path))
              ELSE Raised("RuntimeError", ret.errmsg))

\* copyfile / a_copyfile, rename / a_rename with a string argument,
\* lines 218-264: the response is not read
TransferRun(via, op, self, other, rs) ==
  LET ret == rs[1]
      c == TransferCall(op, self, ResolveStr(self, other))
  IN Out(<<[BaseCall(via, op) EXCEPT !.srcFs = c.srcFs,
                                    !.srcRemote = c.srcRemote,
                                    !.dstFs = c.dstFs,
                                    !.dstRemote = c.dstRemote]>>,
         IF ret.raised # "none" THEN Propagated(ret) ELSE ReturnedNone)

\* iterdir / a_iterdir, lines 266-284, iterated to its end
IterdirRun(via, self, rs) ==
  LET ret == rs[1]
  IN Out(<<FsCall(via, "operations/list", Fs(self), Remote(self))>>,
         IF ret.raised # "none" THEN Propagated(ret)
         ELSE IF ~ret.haslist
         THEN Raised("FileNotFoundError", PathStr(self.path))
         ELSE ReturnedPaths({Truediv(self, n) : n \in ret.list}))

\* 'not found' in ret['result']
NotFoundInBug(text) == TRUE

NotFoundIn(text) == Contains(text, NotFoundIndicator)

\* read_text / a_read_text, lines 286-306
ReadTextRun(via, self, rs) ==
  LET f == IsFileRun(via, self, rs)
      ret == rs[2]
      log == Append(f.log, [BaseCall(via, "core/command") EXCEPT !.arg = Str(self)])
  IN IF f.res.status # "ok" THEN f
     ELSE IF ~f.res.flag
     THEN Out(f.log, Raised("IsADirectoryError", PathStr(self.path)))
     ELSE Out(log,
              IF ret.raised # "none" THEN Propagated(ret)
              ELSE IF ret.errkey \in {"absent", "message"}
              THEN Raised("KeyError", NoText)
              ELSE IF ret.errkey # "false"
              THEN IF NotFoundIn(ret.result)
                   THEN Raised("FileNotFoundError", PathStr(self.path))
                   ELSE Raised("Exception", ret.result)
              ELSE ReturnedText(ret.result))

UploadCallBug(via, self, text) ==
  [FsCall(via, "operations/uploadfile", Fs(self), Remote(self))
     EXCEPT !.filename = PathName(self.path), !.text = text]

UploadCall(via, self, text) ==
  [FsCall(via, "operations/uploadfile", Fs(self), Remote(Parent(self)))
     EXCEPT !.filename = PathName(self.path), !.text = text]

\* write_text / a_write_text, lines 308-318: the response is not read
WriteTextRun(via, self, text, rs) ==
  LET ret == rs[1]
  IN Out(<<UploadCall(via, self, text)>>,
         IF ret.raised # "none" THEN Propagated(ret)
         ELSE ReturnedInt(Len(text)))

\* the directories d the operations are run under
Dirs == {RPathStr(<<>>), RPathStr(<<"/">>), RPathStr(<<"a", ":">>)}

Child(n) == Truediv(odir, n)

\* the paths the operations are invoked on
Receivers == {odir} \cup {Child(n) : n \in ONames}

\* what a pair of fs and remote addresses: d, a child of d, or nothing known
Locate(fs, remote) ==
  IF fs = Fs(odir) /\ remote = Remote(odir) THEN [at |-> "root", name |-> EmptyStr]
  ELSE IF \E n \in ONames : fs = Fs(Child(n)) /\ remote = Remote(Child(n))
  THEN [at |-> "child",
        name |-> CHOOSE n \in ONames : fs = Fs(Child(n)) /\ remote = Remote(Child(n))]
  ELSE [at |-> "outside", name |-> EmptyStr]

\* what the argument of cat addresses
LocateArg(arg) ==
  IF arg = Str(odir) THEN [at |-> "root", name |-> EmptyStr]
  ELSE IF \E n \in ONames : arg = Str(Child(n))
  THEN [at |-> "child", name |-> CHOOSE n \in ONames : arg = Str(Child(n))]
  ELSE [at |-> "outside", name |-> EmptyStr]

EntryAt(tr, loc) ==
  IF loc.at = "root" THEN DirEntry
  ELSE IF loc.at = "child" THEN tr[loc.name]
  ELSE AbsentEntry

Applied(tr, resp) == [tree |-> tr, resp |-> resp]

Refused(tr, msg) == [tree |-> tr, resp |-> ErrorResp(msg)]

\* the control plane applying a call to the file tree: the tree after the call
\* and the response
FaithfulStat(tr, call) ==
  LET e == EntryAt(tr, Locate(call.fs, call.remote))
  IN Applied(tr, ItemResp(IF e.kind = "absent" THEN "null" ELSE e.kind))

FaithfulMkdir(tr, call) ==
  LET loc == Locate(call.fs, call.remote)
      e == EntryAt(tr, loc)
  IN IF e.kind = "dir" THEN Applied(tr, OkResp)
     ELSE IF e.kind = "file" \/ loc.at = "outside"
     THEN Refused(tr, <<"mkdir", "not a directory">>)
     ELSE Applied([tr EXCEPT ![loc.name] = DirEntry], OkResp)

FaithfulRmdir(tr, call) ==
  LET loc == Locate(call.fs, call.remote)
      e == EntryAt(tr, loc)
  IN IF loc.at = "root" THEN Refused(tr, <<"rmdir", "directory in use">>)
     ELSE IF e.kind = "absent" THEN Refused(tr, <<"rmdir", NoSuchFile>>)
     ELSE IF e.kind = "file" THEN Refused(tr, <<"rmdir", "not a directory">>)
     ELSE Applied([tr EXCEPT ![loc.name] = AbsentEntry], OkResp)

FaithfulDeletefile(tr, call) ==
  LET loc == Locate(call.fs, call.remote)
      e == EntryAt(tr, loc)
  IN IF e.kind = "absent" THEN Refused(tr, <<"object", NotFoundIndicator>>)
     ELSE IF e.kind = "dir" THEN Refused(tr, <<"is a directory">>)
     ELSE Applied([tr EXCEPT ![loc.name] = AbsentEntry], OkResp)

FaithfulTransfer(tr, call) ==
  LET src == Locate(call.srcFs, call.srcRemote)
      dst == Locate(call.dstFs, call.dstRemote)
      e == EntryAt(tr, src)
  IN IF e.kind = "absent" THEN Refused(tr, <<"object", NotFoundIndicator>>)
     ELSE IF e.kind = "dir" THEN Refused(tr, <<"is a directory">>)
     ELSE IF dst.at # "child" \/ EntryAt(tr, dst).kind = "dir"
     THEN Refused(tr, <<"is a directory">>)
     ELSE IF dst.name = src.name THEN Applied(tr, OkResp)
     ELSE IF call.op = "operations/movefile"
     THEN Applied([tr EXCEPT ![dst.name] = e, ![src.name] = AbsentEntry], OkResp)
     ELSE Applied([tr EXCEPT ![dst.name] = e], OkResp)

FaithfulList(tr, call) ==
  LET loc == Locate(call.fs, call.remote)
      e == EntryAt(tr, loc)
  IN IF e.kind # "dir" THEN Refused(tr, <<"directory", NotFoundIndicator>>)
     ELSE IF loc.at = "root"
     THEN Applied(tr, ListResp({n \in ONames : tr[n].kind # "absent"}))
     ELSE Applied(tr, ListResp({}))

FaithfulUploadfile(tr, call) ==
  LET loc == Locate(call.fs, call.remote)
  IN IF loc.at # "root" \/ call.filename \notin ONames
     THEN Refused(tr, <<"directory", NotFoundIndicator>>)
     ELSE IF tr[call.filename].kind = "dir" THEN Refused(tr, <<"is a directory">>)
     ELSE Applied([tr EXCEPT ![call.filename] = FileEntry(call.text)], OkResp)

FaithfulCat(tr, call) ==
  LET e == EntryAt(tr, LocateArg(call.arg))
  IN IF e.kind = "file" THEN Applied(tr, CommandResp(FALSE, e.text))
     ELSE IF e.kind = "dir"
     THEN Applied(tr, CommandResp(TRUE, <<"cat:", "is a directory">>))
     ELSE Applied(tr, CommandResp(TRUE, <<"cat:", NotFoundIndicator>>))

Faithful(tr, call) ==
  CASE call.op = "operations/stat" -> FaithfulStat(tr, call)
    [] call.op = "operations/mkdir" -> FaithfulMkdir(tr, call)
    [] call.op = "operations/rmdir" -> FaithfulRmdir(tr, call)
    [] call.op = "operations/deletefile" -> FaithfulDeletefile(tr, call)
    [] call.op \in {"operations/movefile", "operations/copyfile"} ->
         FaithfulTransfer(tr, call)
    [] call.op = "operations/list" -> FaithfulList(tr, call)
    [] call.op = "operations/uploadfile" -> FaithfulUploadfile(tr, call)
    [] call.op = "core/command" -> FaithfulCat(tr, call)

\* the failures of the control plane: the request fails, or the response is an
\* error object although the tree would have allowed the call
Injected(call) ==
  {RaisedResp("ClientError")} \cup
  (CASE call.op = "operations/rmdir" ->
          {ErrorResp(<<"rmdir", NoSuchFile>>), ErrorResp(<<"rmdir", "directory not empty">>)}
     [] call.op = "core/command" ->
          {CommandResp(TRUE, <<"cat:", NotFoundIndicator>>),
           CommandResp(TRUE, <<"cat:", "permission denied">>)}
     [] OTHER -> {ErrorResp(<<"failed">>)})

\* every answer a call can get
Answers(tr, call) ==
  {[resp |-> Faithful(tr, call).resp, tree |-> Faithful(tr, call).tree,
    faithful |-> TRUE]}
  \cup {[resp |-> x, tree |-> tr, faithful |-> FALSE] : x \in Injected(call)}

\* the responses of the calls of an operation, padded to two
Padded(rs) == SubSeq(rs \o <<OkResp, OkResp>>, 1, 2)

\* the responses an operation can read
Responses ==
  [raised : STRING, item : STRING, errkey : STRING, errmsg : Seq(STRING),
   result : Seq(STRING), haslist : BOOLEAN, list : SUBSET ONames]

ResponsePairs == Responses \X Responses

\* the operation ends: the tree, the operation, its calls, the responses and
\* the outcome are recorded
Commit(desc, run, newtree, rs, faithful) ==
  /\ tree' = newtree
  /\ opre' = tree
  /\ oop' = desc
  /\ olog' = run.log
  /\ oresp' = rs
  /\ ores' = run.res
  /\ ofaith' = faithful
  /\ UNCHANGED <<odir, exceptOp>>

\* one operation, from its first call to its return; run is the operation as
\* a function of the responses to its calls: it issues one or two calls, the
\* second depending on the response to the first
Perform(run, desc) ==
  /\ oop = NoOp
  /\ MethodName(desc.name, desc.form) \in Methods
  /\ LET call1 == run[Padded(<<>>)].log[1]
     IN \E a1 \in Answers(tree, call1) :
          LET run1 == run[Padded(<<a1.resp>>)]
          IN IF Len(run1.log) = 1
             THEN Commit(desc, run1, a1.tree, <<a1.resp>>, a1.faithful)
             ELSE \E a2 \in Answers(a1.tree, run1.log[2]) :
                    Commit(desc, run[<<a1.resp, a2.resp>>], a2.tree,
                           <<a1.resp, a2.resp>>, a1.faithful /\ a2.faithful)

\* the children of d, on which the operations that change the tree are invoked
Children == {Child(n) : n \in ONames}

MkdirDesc(form, self, exist_ok) ==
  [OpDesc("mkdir", form, self) EXCEPT !.exist_ok = exist_ok]

TransferDesc(name, form, self, other) ==
  [OpDesc(name, form, self) EXCEPT !.other = other]

WriteTextDesc(form, self, text) ==
  [OpDesc("write_text", form, self) EXCEPT !.text = text]

OpStat ==
  \E form \in Forms, self \in Receivers :
    Perform([rs \in ResponsePairs |-> StatRun(Via(form), self, rs)],
            OpDesc("stat", form, self))

OpExists ==
  \E form \in Forms, self \in Receivers :
    Perform([rs \in ResponsePairs |-> ExistsRun(Via(form), self, rs)],
            OpDesc("exists", form, self))

OpIsFile ==
  \E form \in Forms, self \in Receivers :
    Perform([rs \in ResponsePairs |-> IsFileRun(Via(form), self, rs)],
            OpDesc("is_file", form, self))

OpUnlink ==
  \E form \in Forms, self \in Children :
    Perform([rs \in ResponsePairs |-> UnlinkRun(Via(form), self, rs)],
            OpDesc("unlink", form, self))

OpMkdir ==
  \E form \in Forms, self \in Children, exist_ok \in BOOLEAN :
    Perform([rs \in ResponsePairs |-> MkdirRun(Via(form), self, exist_ok, rs)],
            MkdirDesc(form, self, exist_ok))

OpRmdir ==
  \E form \in Forms, self \in Children :
    Perform([rs \in ResponsePairs |-> RmdirRun(Via(form), self, rs)],
            OpDesc("rmdir", form, self))

OpCopyfile ==
  \E form \in Forms, self \in Children, other \in ONames :
    Perform([rs \in ResponsePairs |->
               TransferRun(Via(form), "operations/copyfile", self, other, rs)],
            TransferDesc("copyfile", form, self, other))

OpRename ==
  \E form \in Forms, self \in Children, other \in ONames :
    Perform([rs \in ResponsePairs |->
               TransferRun(Via(form), "operations/movefile", self, other, rs)],
            TransferDesc("rename", form, self, other))

OpIterdir ==
  \E form \in Forms, self \in Receivers :
    Perform([rs \in ResponsePairs |-> IterdirRun(Via(form), self, rs)],
            OpDesc("iterdir", form, self))

OpReadText ==
  \E form \in Forms, self \in Receivers :
    Perform([rs \in ResponsePairs |-> ReadTextRun(Via(form), self, rs)],
            OpDesc("read_text", form, self))

OpWriteText ==
  \E form \in Forms, self \in Children, text \in Texts :
    Perform([rs \in ResponsePairs |-> WriteTextRun(Via(form), self, text, rs)],
            WriteTextDesc(form, self, text))

\* an operation is invoked in a form the class does not define: the attribute
\* lookup fails and no call is issued
InvokeMissing ==
  \E name \in OpNames, form \in Forms, self \in Receivers :
    /\ oop = NoOp
    /\ MethodName(name, form) \notin Methods
    /\ Commit(OpDesc(name, form, self),
              Out(<<>>, Raised("AttributeError", NoText)), tree, <<>>, TRUE)

\* the caller has taken the outcome of the operation and goes on to the next
\* one: the tree stays, the record of the operation is dropped
Observe ==
  /\ oop # NoOp
  /\ opre' = tree
  /\ oop' = NoOp
  /\ olog' = <<>>
  /\ oresp' = <<>>
  /\ ores' = ReturnedNone
  /\ ofaith' = TRUE
  /\ UNCHANGED <<odir, tree, exceptOp>>

InitOps ==
  /\ InitPathIdle /\ InitMountIdle /\ InitBridgeIdle /\ InitAwithIdle
  /\ InitScopeIdle /\ InitCallIdle /\ InitParseIdle /\ InitOpenIdle
  /\ InitPointIdle
  /\ client = "set"
  /\ a_client = "set"
  /\ odir \in Dirs
  /\ tree \in [ONames -> Entries]
  /\ opre = tree
  /\ oop = NoOp
  /\ olog = <<>>
  /\ oresp = <<>>
  /\ ores = ReturnedNone
  /\ ofaith = TRUE

NextOps ==
  \/ OpStat
  \/ OpExists
  \/ OpIsFile
  \/ OpUnlink
  \/ OpMkdir
  \/ OpRmdir
  \/ OpCopyfile
  \/ OpRename
  \/ OpIterdir
  \/ OpReadText
  \/ OpWriteText
  \/ InvokeMissing
  \/ Observe

SpecOps == InitOps /\ [][NextOps]_vars

\* C11: when the response to the "delete file" call of unlink or to the "move
\* file" call of rename reports an error, the operation fails for the caller
\* instead of returning normally.
C11_ErrorResponseFailsCaller ==
  (/\ oop.name \in {"unlink", "rename"}
   /\ Len(oresp) = 1
   /\ oresp[1].raised = "none"
   /\ oresp[1].errkey # "absent")
  => ores.status # "ok"

\* the name of the child the recorded operation was invoked on
TargetName == PathName(oop.self.path)

\* the stat call of the recorded operation was answered, and with an item
StatAnswered == Len(oresp) >= 1 /\ oresp[1].raised = "none"

StatFound == StatAnswered /\ oresp[1].item \in {"dir", "file"}

StatNotFound == StatAnswered /\ oresp[1].item \in {"absent", "null"}

\* the calls of the recorded operation to the control-plane operation op
LoggedCalls(op) == {i \in DOMAIN olog : olog[i].op = op}

\* C12: mkdir(exist_ok) issues one stat call first; if the target exists it
\* issues no mkdir call and returns without effect (exist_ok) or fails with
\* FileExistsError (not exist_ok); if the target does not exist it issues
\* exactly one mkdir call for the backend and the path of self.  After mkdir on
\* an absent path, with a control plane that applies each call, stat of that
\* path reports a directory.
C12_MkdirStatFirstThenOneCall ==
  oop.name = "mkdir" =>
    LET self == oop.self
        via == Via(oop.form)
        stat == FsCall(via, "operations/stat", Fs(self), Remote(self))
    IN /\ Len(olog) >= 1
       /\ olog[1] = stat
       /\ LoggedCalls("operations/stat") = {1}
       /\ StatFound =>
            /\ Len(olog) = 1
            /\ tree = opre
            /\ ores = IF oop.exist_ok THEN ReturnedNone
                      ELSE Raised("FileExistsError", PathStr(self.path))
       /\ StatNotFound =>
            /\ Len(olog) = 2
            /\ olog[2] = FsCall(via, "operations/mkdir", Fs(self), Remote(self))
       /\ (ofaith /\ ores.status = "ok" /\ opre[TargetName].kind = "absent") =>
            StatRun(via, self, <<Faithful(tree, stat).resp>>).res
              = ReturnedItem("dir")

C12_Witness ==
  /\ oop.name = "mkdir"
  /\ ofaith
  /\ Len(olog) = 2
  /\ ores.status = "ok"
  /\ opre[TargetName].kind = "absent"
  /\ tree[TargetName].kind = "dir"

\* the operation desc run in the form form on the responses rs
RunIn(desc, form, rs) ==
  LET via == Via(form)
      self == desc.self
  IN CASE desc.name = "stat" -> StatRun(via, self, rs)
       [] desc.name = "exists" -> ExistsRun(via, self, rs)
       [] desc.name = "is_file" -> IsFileRun(via, self, rs)
       [] desc.name = "unlink" -> UnlinkRun(via, self, rs)
       [] desc.name = "mkdir" -> MkdirRun(via, self, desc.exist_ok, rs)
       [] desc.name = "rmdir" -> RmdirRun(via, self, rs)
       [] desc.name = "copyfile" ->
            TransferRun(via, "operations/copyfile", self, desc.other, rs)
       [] desc.name = "rename" ->
            TransferRun(via, "operations/movefile", self, desc.other, rs)
       [] desc.name = "iterdir" -> IterdirRun(via, self, rs)
       [] desc.name = "read_text" -> ReadTextRun(via, self, rs)
       [] desc.name = "write_text" -> WriteTextRun(via, self, desc.text, rs)

\* the operation desc run on the tree tr with a control plane that applies
\* each call: its outcome and the tree after it
FaithfulRun(desc, tr) ==
  LET f1 == Faithful(tr, RunIn(desc, desc.form, Padded(<<>>)).log[1])
      r1 == RunIn(desc, desc.form, Padded(<<f1.resp>>))
      f2 == Faithful(f1.tree, r1.log[2])
  IN IF Len(r1.log) = 1 THEN [res |-> r1.res, tree |-> f1.tree]
     ELSE [res |-> RunIn(desc, desc.form, Padded(<<f1.resp, f2.resp>>)).res,
           tree |-> f2.tree]

\* C13: rmdir on a target that does not exist fails with FileNotFoundError and
\* issues no rmdir call; otherwise it issues exactly one rmdir call, a response
\* error containing "no such file or directory" becomes FileNotFoundError and
\* any other response error a RuntimeError carrying the message.  With a control
\* plane that applies each call, after a successful rmdir of a directory a
\* second rmdir of the path fails with FileNotFoundError and exists is false.
C13_RmdirErrorsMapped ==
  oop.name = "rmdir" =>
    LET self == oop.self
        via == Via(oop.form)
        call == FsCall(via, "operations/rmdir", Fs(self), Remote(self))
    IN /\ StatNotFound =>
            /\ ores.status = "FileNotFoundError"
            /\ LoggedCalls("operations/rmdir") = {}
       /\ StatFound =>
            /\ Len(olog) = 2
            /\ olog[2] = call
            /\ LoggedCalls("operations/rmdir") = {2}
            /\ (oresp[2].raised = "none" /\ oresp[2].errkey = "message") =>
                 IF Contains(oresp[2].errmsg, NoSuchFile)
                 THEN ores.status = "FileNotFoundError"
                 ELSE ores.status = "RuntimeError" /\ ores.text = oresp[2].errmsg
            /\ (oresp[2].raised = "none" /\ oresp[2].errkey = "absent") =>
                 ores = ReturnedNone
       /\ (ofaith /\ ores.status = "ok" /\ opre[TargetName].kind = "dir") =>
            /\ FaithfulRun(OpDesc("rmdir", oop.form, self), tree).res.status
                 = "FileNotFoundError"
            /\ FaithfulRun(OpDesc("exists", oop.form, self), tree).res
                 = ReturnedBool(FALSE)

C13_Witness ==
  /\ oop.name = "rmdir"
  /\ Len(oresp) = 2
  /\ oresp[2].errkey = "message"
  /\ Contains(oresp[2].errmsg, NoSuchFile)
  /\ ores.status = "FileNotFoundError"

\* C14: stat issues exactly one stat call and fails with FileNotFoundError
\* exactly when the response carries no item, otherwise it returns the item;
\* exists returns False exactly when stat fails with FileNotFoundError, True when
\* stat returns, and propagates every other failure of the call unchanged.
C14_StatAndExists ==
  LET self == oop.self
      via == Via(oop.form)
      call == FsCall(via, "operations/stat", Fs(self), Remote(self))
      st == StatRun(via, self, oresp)
  IN /\ oop.name = "stat" =>
          /\ olog = <<call>>
          /\ oresp[1].raised = "none" =>
               /\ ores.status = "FileNotFoundError"
                    <=> oresp[1].item \in {"absent", "null"}
               /\ oresp[1].item \in {"dir", "file"} =>
                    ores = ReturnedItem(oresp[1].item)
          /\ oresp[1].raised # "none" => ores.status = oresp[1].raised
     /\ oop.name = "exists" =>
          /\ olog = <<call>>
          /\ ores = ReturnedBool(FALSE) <=> st.res.status = "FileNotFoundError"
          /\ st.res.status = "ok" => ores = ReturnedBool(TRUE)
          /\ st.res.status \notin {"ok", "FileNotFoundError"} => ores = st.res

C14_Witness ==
  /\ oop.name = "exists"
  /\ ofaith
  /\ oresp[1].item = "null"
  /\ ores = ReturnedBool(FALSE)

CallApplied ==
  /\ ofaith
  /\ Len(oresp) = 1
  /\ oresp[1].raised = "none"
  /\ oresp[1].errkey = "absent"

OtherForm(form) == IF form = "async" THEN "blocking" ELSE "async"

\* the calls of a log without the entry point they went through
Parameters(log) == [i \in DOMAIN log |-> [log[i] EXCEPT !.via = "either"]]

\* C17: every operation exists in a blocking and in a suspension-point form,
\* and for the same receiver, arguments and responses the two forms issue the
\* same calls with the same parameters and end with the same result or the same
\* failure.
C17_BothFormsEquivalent ==
  oop # NoOp =>
    /\ MethodName(oop.name, "blocking") \in Methods
    /\ MethodName(oop.name, "async") \in Methods
    /\ LET other == RunIn(oop, OtherForm(oop.form), Padded(oresp))
       IN /\ Parameters(other.log) = Parameters(olog)
          /\ other.res = ores

(***************************************************************************)
(* SpecOpen: RPath.open, the scope that enters the mount scope of the      *)
(* parent, opens the file in the mounted directory, yields the handle, and *)
(* on the way out closes the handle and leaves the mount scope.  The steps *)
(* of the mount scope are those of SpecMount in its blocking form.         *)
(***************************************************************************)
\* the paths open is called on: files under a directory, and the directories
OpenReceivers == Dirs \cup {Truediv(d, n) : d \in Dirs, n \in ONames}

InitOpen ==
  /\ client = "set"
  /\ a_client = "set"
  /\ InitPathIdle
  /\ InitBridgeIdle
  /\ InitAwithIdle
  /\ InitScopeIdle
  /\ InitCallIdle
  /\ InitParseIdle
  /\ InitOpIdle
  /\ InitPointIdle
  /\ mform = "mount"
  /\ mpc = "uncalled"
  /\ mexc = "none"
  /\ mstats = NoStats
  /\ mpolls = 0
  /\ mlog = <<>>
  /\ fself \in OpenReceivers
  /\ fmnt = RPathOf(EmptyPath, LocalSentinel)
  /\ fh = "none"
  /\ fopened = EmptyStr
  /\ fexc = "none"

\* the exit of `with (path/self.name).open(...) as fh` closes the handle
AfterWithBug(h) == h

AfterWith(h) == "closed"

\* open is called: self.parent.mount() is evaluated and its scope is about to
\* be entered
OpenCall ==
  /\ mpc = "uncalled"
  /\ fmnt' = Parent(fself)
  /\ mpc' = "idle"
  /\ UNCHANGED <<mform, mexc, mstats, mpolls, mlog, fself, fh, fopened, fexc,
                 exceptOpen>>

\* (path / self.name).open(mode) returns the native handle; open yields it
OpenHandle ==
  /\ mpc = "body"
  /\ fh = "none"
  /\ PathName(fself.path) # EmptyStr
  /\ fh' = "open"
  /\ fopened' = PathName(fself.path)
  /\ mlog' = Append(mlog, CallEvent("open"))
  /\ UNCHANGED <<mform, mpc, mexc, mstats, mpolls, fself, fmnt, fexc,
                 exceptOpen>>

\* (path / self.name).open(mode) raises: the mount scope is left by the error
OpenHandleFailed ==
  /\ mpc = "body"
  /\ fh = "none"
  /\ fopened' = PathName(fself.path)
  /\ mlog' = Append(mlog, CallEvent("open failed"))
  /\ mexc' = "error"
  /\ mpc' = "poll"
  /\ UNCHANGED <<mform, mstats, mpolls, fself, fmnt, fh, fexc, exceptOpen>>

\* the body of the open scope ends, normally or by raising
OpenBodyExit ==
  /\ mpc = "body"
  /\ fh = "open"
  /\ \E e \in {"none", "error"} : fexc' = e
  /\ mpc' = "closing"
  /\ mlog' = Append(mlog, CallEvent("body"))
  /\ UNCHANGED <<mform, mexc, mstats, mpolls, fself, fmnt, fh, fopened,
                 exceptOpen>>

\* the inner with statement is left, which closes the handle; then the body of
\* the mount scope has ended, the way the body of the open scope did
OpenClose ==
  /\ mpc = "closing"
  /\ fh' = AfterWith(fh)
  /\ mlog' = IF AfterWith(fh) = "closed" THEN Append(mlog, CallEvent("close"))
             ELSE mlog
  /\ mexc' = fexc
  /\ mpc' = "poll"
  /\ UNCHANGED <<mform, mstats, mpolls, fself, fmnt, fopened, fexc, exceptOpen>>

NextOpen ==
  \/ OpenCall
  \/ MountEnter
  \/ MountReturned
  \/ MountFailed
  \/ OpenHandle
  \/ OpenHandleFailed
  \/ OpenBodyExit
  \/ OpenClose
  \/ MountPoll
  \/ MountPollFailed
  \/ MountSleep
  \/ MountUnmount
  \/ MountUnmountReturned
  \/ MountExit

SpecOpen == InitOpen /\ [][NextOpen]_vars

\* the positions of an event in the log of the scope
EventsOf(ev) == {i \in DOMAIN mlog : mlog[i].ev = ev}

\* every ev1 in the log is before every ev2
Before(ev1, ev2) == \A i \in EventsOf(ev1), j \in EventsOf(ev2) : i < j

\* an ev2 in the log has an ev1 in the log
Needs(ev2, ev1) == EventsOf(ev2) # {} => EventsOf(ev1) # {}

\* C20: open mounts the parent directory of self and opens the child named
\* self.name inside the mounted directory; on scope exit, normal or by the body
\* raising, the handle is closed before the first vfs/stats poll, which precedes
\* the mount/unmount call: the order mount, open handle, body, close handle,
\* drain polls, unmount holds in every execution.
C20_OpenOrdering ==
  /\ mpc \notin {"uncalled"} => fmnt = Parent(fself)
  /\ fh # "none" => fopened = PathName(fself.path)
  /\ Before("mount/mount", "open")
  /\ Before("open", "body")
  /\ Before("body", "close")
  /\ Before("close", "vfs/stats")
  /\ Before("vfs/stats", "mount/unmount")
  /\ Needs("open", "mount/mount")
  /\ Needs("body", "open")
  /\ Needs("close", "body")
  /\ Needs("vfs/stats", "mount/mount")
  /\ Needs("mount/unmount", "vfs/stats")
  /\ (EventsOf("vfs/stats") # {} \/ EventsOf("mount/unmount") # {}) =>
       /\ fh # "open"
       /\ Needs("open", "close")

C20_Witness ==
  /\ mpc = "done"
  /\ fexc = "error"
  /\ fh = "closed"
  /\ EventsOf("open") # {}
  /\ EventsOf("body") # {}
  /\ EventsOf("close") # {}
  /\ Cardinality(EventsOf("vfs/stats")) >= 2
  /\ EventsOf("mount/unmount") # {}

\* every supervised task of the session has been cancelled and has ended
AllCancelledAndJoined ==
  \A i \in Tasks : i \in creq /\ tsk[i] \in {"cancelled"} \cup TaskErrors

\* C21: when a bridge session is torn down, RPath.client and RPath.a_client
\* are cleared only after every supervised task (rclone_rcd and
\* rclone_rc_bridge) has been cancelled and joined, and the session scope exit
\* returns only after that.
C21_ClientClearedAfterJoinThenExit ==
  /\ (spc \in {"cancel", "await", "exited"} /\ client = "None") =>
       AllCancelledAndJoined
  /\ spc = "exited" => AllCancelledAndJoined /\ client = "None"


\* C22: mount/unmount pairing. No mount/unmount is issued before the mount/mount
\* call, and every mount/unmount comes after at least one vfs/stats poll and
\* after every poll made; at most one mount/unmount is ever issued. Once a scope
\* whose mount/mount call returned has left its finally block, whether its body
\* ended normally, raised or was cancelled, and every vfs/stats poll gave a
\* response, exactly one mount/unmount was issued and its mountPoint is that
\* of the mount/mount call.
C22_MountUnmountPairing ==
  /\ Cardinality(CallsOf("mount/unmount")) <= 1
  /\ \A u \in CallsOf("mount/unmount") :
       /\ \E m \in CallsOf("mount/mount") : m < u
       /\ \E k \in CallsOf("vfs/stats") : k < u
       /\ \A k \in CallsOf("vfs/stats") \cup CallsOf("mount/mount") : k < u
  /\ CallsOf("mount/unmount") = {} => munm = "none"
  /\ ( /\ mpc \in {"rmtmp", "done"}
       /\ mentered
       /\ CallsOf("vfs/stats failed") = {} ) =>
       /\ Cardinality(CallsOf("mount/unmount")) = 1
       /\ munm = mmnt
       /\ mmnt \in TmpDirs

\* a scope whose body raised is left after two polls and the unmount
C22_Witness ==
  /\ mpc = "done"
  /\ mentered
  /\ mexc = "error"
  /\ Cardinality(CallsOf("vfs/stats")) = 2
  /\ Cardinality(CallsOf("mount/unmount")) = 1
  /\ munm = mmnt

(***************************************************************************)
(* SpecAcquire: the two bridges under fair scheduling.  A run is either a  *)
(* caller of ensure_event_loop_thread / with_awith or a coroutine inside   *)
(* async with awith_with(...).  Every step of the caller, of the event     *)
(* loops, of the worker thread and of the coroutine is taken if it stays   *)
(* possible; a cancellation of the coroutine comes from outside and need   *)
(* never happen.                                                           *)
(***************************************************************************)
InitAcquire == InitBridge \/ InitAwith

\* the steps of awith_with and with_thread that need no outside cancellation
AwithProgress ==
  \/ AwithEnter
  \/ WorkerStart
  \/ WorkerEnter
  \/ WorkerPut
  \/ WorkerDone
  \/ WorkerExitEnd
  \/ TaskSettle
  \/ AwithGet
  \/ AwithBodyExit
  \/ AwithFinalReturn

NextAcquire ==
  \/ NextBridge
  \/ NextAwith

SpecAcquire ==
  /\ InitAcquire
  /\ [][NextAcquire]_vars
  /\ WF_vars(NextBridge)
  /\ WF_vars(AwithProgress)

\* C23: an acquisition that raises reaches the consumer. When __aenter__ has
\* raised inside arun_until_done while with_awith waits for ready, with_awith
\* eventually leaves the wait and its scope entry ends; when withfn() or its
\* __enter__ has raised on the worker thread while awith_with waits in
\* ready.get(), the async scope entry eventually ends: neither consumer waits
\* forever for the ready signal or the handoff queue.
C23_AcquisitionFailureReachesConsumer ==
  /\ (prog = "with_awith" /\ cpc = "w83" /\ svc = "failed") ~>
       (cpc \in {"exiting", "joining", "done"})
  /\ (apc = "get" /\ wpc = "failed" /\ ~acquired) ~> (apc = "exited")

\* C24: with_awith entered on a thread that already runs the event loop, the
\* case in which ensure_event_loop_thread yields the running loop. The loop
\* goes on to run arun_until_done, so the scheduled acquisition eventually
\* starts, and with_awith leaves its wait for ready: it reaches its body once
\* the resource is acquired, or its entry ends because the acquisition raised.
C24_ReuseReachesBody ==
  /\ (running /\ prog = "with_awith" /\ svc = "scheduled") ~>
       (svc # "scheduled")
  /\ (running /\ prog = "with_awith" /\ cpc = "w83") ~>
       (cpc = "wbody" \/ svc = "failed")
=============================================================================
